---- MODULE Spec2Model ----
(***************************************************************************)
(* Model of the warehouse algorithm engines: MergeSort / QuickSort         *)
(* (algorithms/sorting.ts), BinarySearch / HashMapSearch (searching),      *)
(* GreedyBestFit / KnapsackOptimization (space optimization) and           *)
(* DijkstraPathFinder (algorithms/dijkstra.ts).                            *)
(*                                                                         *)
(* Conventions.  A JS string is a sequence of UTF-16 code units (65 = "A", *)
(* 97 = "a").  Array indices inside the algorithms are the 0-based indices *)
(* of the source; element k of a JS array a is a[k + 1] here.  Weights are *)
(* carried in tenths (3 stands for 0.3), so that Math.ceil is not the      *)
(* identity; values and quantities are naturals.                           *)
(***************************************************************************)
EXTENDS Integers, Sequences, FiniteSets, TLC

VARIABLES
    items,          \* the caller's item collection (InventoryItem[])
    spaces,         \* the caller's WarehouseSpace objects, mutated in place
    hashMaps,       \* HashMapSearch.hashMaps
    locations,      \* DijkstraPathFinder.locations
    graph,          \* DijkstraPathFinder.graph
    msCounters,     \* MergeSort.comparisons / MergeSort.swaps
    qsCounters,     \* QuickSort.comparisons / QuickSort.swaps
    call,           \* the engine call in flight: operation and arguments
    ret,            \* what that call returned (or threw)
    loading,        \* useWarehouseData: the loading state
    localStorage,   \* the browser's local storage: inventory and spaces keys
    sampleWarehouseSpaces,  \* the objects of the module-level sample array
    sharesSample,   \* which state arrays are the module-level sample arrays
    searchView      \* the Search view's searchTerm, searchBy and searchAlgorithm

\* useWarehouseData's state next to items (inventory) and spaces
\* (warehouseSpaces), and the state of the view that uses the hook
hookVars == <<loading, localStorage, sampleWarehouseSpaces, sharesSample, searchView>>

vars == <<items, spaces, hashMaps, locations, graph, msCounters, qsCounters, call, ret,
          loading, localStorage, sampleWarehouseSpaces, sharesSample, searchView>>

----------------------------------------------------------------------------
(* Bounds of the model *)

MaxItems == 3
MaxCapacity == 3
MaxSpaces == 2
MaxLocs == 3
MaxDests == 2
MaxSortItems == 4

----------------------------------------------------------------------------
(* JS strings *)

Lower(c) == IF c \in 65..90 THEN c + 32 ELSE c

toLowerCase(s) == [i \in 1..Len(s) |-> Lower(s[i])]

Min(a, b) == IF a <= b THEN a ELSE b

\* s < t on strings: code-unit lexicographic order
StrLT(s, t) ==
    \E k \in 1..(Min(Len(s), Len(t)) + 1) :
        /\ \A i \in 1..(k - 1) : s[i] = t[i]
        /\ \/ k > Len(s) /\ k <= Len(t)
           \/ k <= Len(s) /\ k <= Len(t) /\ s[k] < t[k]

StrLE(s, t) == s = t \/ StrLT(s, t)

\* String.prototype.startsWith / the prefix value.substring(0, i)
substring0(s, i) == SubSeq(s, 1, i)

\* String.prototype.includes
includes(s, t) ==
    \E k \in 0..(Len(s) - Len(t)) : SubSeq(s, k + 1, k + Len(t)) = t

----------------------------------------------------------------------------
(* InventoryItem, WarehouseSpace, Location *)

StringFields == {"id", "name", "category", "supplier"}
NumberFields == {"quantity", "weight", "value"}
Fields == StringFields \cup NumberFields

Loc(a, s, p) == [aisle |-> <<a>>, shelf |-> s, position |-> p]

MkItem(id, name, category, supplier, quantity, weight, value, location) ==
    [id |-> id, name |-> name, category |-> category, supplier |-> supplier,
     quantity |-> quantity, weight |-> weight, value |-> value, location |-> location]

\* The inventory records the engines are exercised on: names that differ
\* only in case, equal quantities, weights 0.3 and 0.2 that both round up
\* to 1, a weight of 1.5, a zero-weight item and the all-zero item the add
\* form produces by default.
ItemUniverse ==
    { MkItem(<<73, 49>>, <<98>>,      <<69>>, <<115>>,      2, 3,  5, Loc(65, 1, 1)),
      MkItem(<<73, 50>>, <<65>>,      <<101>>, <<83>>,      1, 2,  3, Loc(65, 1, 2)),
      MkItem(<<73, 51>>, <<97>>,      <<70>>, <<>>,         2, 15, 6, Loc(66, 2, 1)),
      MkItem(<<73, 52>>, <<65, 98>>,  <<69>>, <<83, 116>>,  3, 0,  4, Loc(65, 1, 1)),
      MkItem(<<73, 53>>, <<66>>,      <<70>>, <<115>>,      0, 0,  0, Loc(65, 1, 1)) }

\* Sequences of pairwise different elements of S, of length at most n
RECURSIVE DistinctSeqs(_, _)
DistinctSeqs(S, n) ==
    IF n = 0 THEN { <<>> }
    ELSE LET shorter == DistinctSeqs(S, n - 1)
         IN  shorter \cup
             { Append(q, x) : <<q, x>> \in
                 { p \in shorter \X S : \A i \in 1..Len(p[1]) : p[1][i] # p[2] } }

ItemLists == DistinctSeqs(ItemUniverse, MaxItems)

\* the longer lists the sorters are run on
SortLists == DistinctSeqs(ItemUniverse, MaxSortItems)

Range(q) == { q[i] : i \in 1..Len(q) }

----------------------------------------------------------------------------
(* algorithms/sorting.ts *)

\* MergeSort.getValue / QuickSort.getValue: strings are lowercased, numbers
\* are returned as they are.  The tag records JS's typeof.
Sort_getValue(item, sortBy) ==
    IF sortBy \in StringFields
    THEN [str |-> TRUE, v |-> toLowerCase(item[sortBy])]
    ELSE [str |-> FALSE, v |-> item[sortBy]]

\* the JS comparison a <= b on two strings or two numbers
JsLE(a, b) == IF a.str THEN StrLE(a.v, b.v) ELSE a.v <= b.v

\* MergeSort.merge with the strict comparison (takes the right element on ties)
RECURSIVE mergeStrict(_, _, _, _, _, _, _)
mergeStrict(left, right, sortBy, leftIndex, rightIndex, result, cnt) ==
    IF leftIndex < Len(left) /\ rightIndex < Len(right)
    THEN IF ~JsLE(Sort_getValue(right[rightIndex + 1], sortBy),
                  Sort_getValue(left[leftIndex + 1], sortBy))
         THEN mergeStrict(left, right, sortBy, leftIndex + 1, rightIndex,
                          Append(result, left[leftIndex + 1]),
                          [cnt EXCEPT !.comparisons = @ + 1])
         ELSE mergeStrict(left, right, sortBy, leftIndex, rightIndex + 1,
                          Append(result, right[rightIndex + 1]),
                          [cnt EXCEPT !.comparisons = @ + 1, !.swaps = @ + 1])
    ELSE [arr |-> result \o SubSeq(left, leftIndex + 1, Len(left))
                         \o SubSeq(right, rightIndex + 1, Len(right)),
          cnt |-> cnt]

\* MergeSort.merge that counts a swap at every step of the loop
RECURSIVE mergeSwapEveryStep(_, _, _, _, _, _, _)
mergeSwapEveryStep(left, right, sortBy, leftIndex, rightIndex, result, cnt) ==
    IF leftIndex < Len(left) /\ rightIndex < Len(right)
    THEN IF JsLE(Sort_getValue(left[leftIndex + 1], sortBy),
                 Sort_getValue(right[rightIndex + 1], sortBy))
         THEN mergeSwapEveryStep(left, right, sortBy, leftIndex + 1, rightIndex,
                    Append(result, left[leftIndex + 1]),
                    [cnt EXCEPT !.comparisons = @ + 1, !.swaps = @ + 1])
         ELSE mergeSwapEveryStep(left, right, sortBy, leftIndex, rightIndex + 1,
                    Append(result, right[rightIndex + 1]),
                    [cnt EXCEPT !.comparisons = @ + 1, !.swaps = @ + 1])
    ELSE [arr |-> result \o SubSeq(left, leftIndex + 1, Len(left))
                         \o SubSeq(right, rightIndex + 1, Len(right)),
          cnt |-> cnt]

\* MergeSort.merge: the while loop, then the two concat calls.  cnt is the
\* instance's comparisons / swaps pair.
RECURSIVE merge(_, _, _, _, _, _, _)
merge(left, right, sortBy, leftIndex, rightIndex, result, cnt) ==
    IF leftIndex < Len(left) /\ rightIndex < Len(right)
    THEN IF JsLE(Sort_getValue(left[leftIndex + 1], sortBy),
                 Sort_getValue(right[rightIndex + 1], sortBy))
         THEN merge(left, right, sortBy, leftIndex + 1, rightIndex,
                    Append(result, left[leftIndex + 1]),
                    [cnt EXCEPT !.comparisons = @ + 1])
         ELSE merge(left, right, sortBy, leftIndex, rightIndex + 1,
                    Append(result, right[rightIndex + 1]),
                    [cnt EXCEPT !.comparisons = @ + 1, !.swaps = @ + 1])
    ELSE [arr |-> result \o SubSeq(left, leftIndex + 1, Len(left))
                         \o SubSeq(right, rightIndex + 1, Len(right)),
          cnt |-> cnt]

\* MergeSort.mergeSort
RECURSIVE mergeSort(_, _, _)
mergeSort(arr, sortBy, cnt) ==
    IF Len(arr) <= 1 THEN [arr |-> arr, cnt |-> cnt]
    ELSE LET mid   == Len(arr) \div 2
             left  == mergeSort(SubSeq(arr, 1, mid), sortBy, cnt)
             right == mergeSort(SubSeq(arr, mid + 1, Len(arr)), sortBy, left.cnt)
         IN  merge(left.arr, right.arr, sortBy, 0, 0, <<>>, right.cnt)

ZeroCounters == [comparisons |-> 0, swaps |-> 0]

\* "[...arr]": a second array with the same elements.  A call's arrays are
\* kept by name, so that an in-place sort, swap or splice changes the array
\* it is applied to and no other.
spread(heap, from, to) == [n \in DOMAIN heap \cup {to} |-> IF n = to THEN heap[from] ELSE heap[n]]

\* a sort that goes on counting from the tallies of the previous call
keepCounters(cnt) == cnt

\* a sort that sets comparisons to 0 and goes on counting swaps
resetComparisonsOnly(cnt) == [cnt EXCEPT !.comparisons = 0]

\* "this.comparisons = 0; this.swaps = 0" at the start of sort
resetCounters(cnt) == ZeroCounters

\* QuickSort.swap
swap(arr, i, j) == [arr EXCEPT ![i + 1] = arr[j + 1], ![j + 1] = arr[i + 1]]

\* what a call of QuickSort.sort did, next to its tallies: the calls of
\* swap as <<i, j>>, and the ranges partitioned with the comparisons each
\* partition counted
NoTrace == [exchanges |-> <<>>, partitions |-> <<>>]

\* the for loop of QuickSort.partition, from index j on
RECURSIVE partitionLoop(_, _, _, _, _, _, _)
partitionLoop(arr, high, sortBy, pivot, i, j, cnt) ==
    IF j < high
    THEN IF JsLE(Sort_getValue(arr[j + 1], sortBy), pivot)
         THEN partitionLoop(swap(arr, i + 1, j), high, sortBy, pivot, i + 1, j + 1,
                            [cnt EXCEPT !.comparisons = @ + 1,
                                        !.swaps = IF i + 1 # j THEN @ + 1 ELSE @,
                                        !.exchanges = Append(@, <<i + 1, j>>)])
         ELSE partitionLoop(arr, high, sortBy, pivot, i, j + 1,
                            [cnt EXCEPT !.comparisons = @ + 1])
    ELSE [arr |-> arr, i |-> i, cnt |-> cnt]

\* QuickSort.partition that leaves the pivot where it was
partitionNoPivotSwap(arr, low, high, sortBy, cnt) ==
    LET pivot == Sort_getValue(arr[high + 1], sortBy)
        loop  == partitionLoop(arr, high, sortBy, pivot, low - 1, low, cnt)
    IN  [arr |-> loop.arr, pivotIndex |-> loop.i + 1, cnt |-> loop.cnt]

\* QuickSort.partition that counts the pivot placement whether or not the
\* pivot moves
partitionCountsPlacement(arr, low, high, sortBy, cnt) ==
    LET pivot == Sort_getValue(arr[high + 1], sortBy)
        loop  == partitionLoop(arr, high, sortBy, pivot, low - 1, low, cnt)
    IN  [arr |-> swap(loop.arr, loop.i + 1, high),
         pivotIndex |-> loop.i + 1,
         cnt |-> [loop.cnt EXCEPT
                    !.swaps = @ + 1,
                    !.exchanges = Append(@, <<loop.i + 1, high>>),
                    !.partitions = Append(@, [low |-> low, high |-> high,
                        comparisons |-> loop.cnt.comparisons - cnt.comparisons])]]

\* QuickSort.partition
partition(arr, low, high, sortBy, cnt) ==
    LET pivot == Sort_getValue(arr[high + 1], sortBy)
        loop  == partitionLoop(arr, high, sortBy, pivot, low - 1, low, cnt)
    IN  [arr |-> swap(loop.arr, loop.i + 1, high),
         pivotIndex |-> loop.i + 1,
         cnt |-> [loop.cnt EXCEPT
                    !.swaps = IF loop.i + 1 # high THEN @ + 1 ELSE @,
                    !.exchanges = Append(@, <<loop.i + 1, high>>),
                    !.partitions = Append(@, [low |-> low, high |-> high,
                        comparisons |-> loop.cnt.comparisons - cnt.comparisons])]]

\* QuickSort.quickSort
RECURSIVE quickSort(_, _, _, _, _)
quickSort(arr, low, high, sortBy, cnt) ==
    IF low < high
    THEN LET p     == partition(arr, low, high, sortBy, cnt)
             lower == quickSort(p.arr, low, p.pivotIndex - 1, sortBy, p.cnt)
         IN  quickSort(lower.arr, p.pivotIndex + 1, high, sortBy, lower.cnt)
    ELSE [arr |-> arr, cnt |-> cnt]

\* QuickSort.sort that sorts the array it was given ("const sortedItems =
\* items")
QuickSort_runAliased(its, sortBy, cnt) ==
    LET r == quickSort(its, 0, Len(its) - 1, sortBy, resetCounters(cnt) @@ NoTrace)
    IN  [items |-> r.arr, sortedItems |-> r.arr,
         cnt |-> [comparisons |-> r.cnt.comparisons, swaps |-> r.cnt.swaps],
         exchanges |-> r.cnt.exchanges, partitions |-> r.cnt.partitions]

\* the body of QuickSort.sort: the counters are reset, quickSort reorders
\* the copy sortedItems in place; items is the caller's array afterwards
QuickSort_run(its, sortBy, cnt) ==
    LET heap == spread([items |-> its], "items", "sortedItems")
        r    == quickSort(heap.sortedItems, 0, Len(heap.sortedItems) - 1, sortBy,
                          resetCounters(cnt) @@ NoTrace)
        done == [heap EXCEPT !.sortedItems = r.arr]
    IN  [items |-> done.items, sortedItems |-> done.sortedItems,
         cnt |-> [comparisons |-> r.cnt.comparisons, swaps |-> r.cnt.swaps],
         exchanges |-> r.cnt.exchanges, partitions |-> r.cnt.partitions]

----------------------------------------------------------------------------
(* KnapsackOptimization (spaceOptimization, in components/Reports.tsx) *)

Max(a, b) == IF a >= b THEN a ELSE b

\* Math.ceil of a weight given in tenths
ceil(weight) == (weight + 9) \div 10

\* one row of the DP table: the inner loop runs w = 1..capacity, so column 0
\* keeps the 0 the table was created with
dpRow(prev, item, capacity) ==
    LET weight == ceil(item.weight)
        value  == item.value
    IN  [w \in 0..capacity |->
            IF w = 0 THEN 0
            ELSE IF weight <= w
                 THEN Max(value + prev[w - weight], prev[w])
                 ELSE prev[w]]

\* the DP table: dp[i + 1] is the source's row dp[i], a function on 0..capacity
RECURSIVE fillTable(_, _, _)
fillTable(its, capacity, i) ==
    IF i = 0 THEN << [w \in 0..capacity |-> 0] >>
    ELSE LET dp == fillTable(its, capacity, i - 1)
         IN  Append(dp, dpRow(dp[i], its[i], capacity))

\* the backtracking loop that adds the rounded weight to totalWeight
RECURSIVE backtrackCeil(_, _, _, _, _, _, _)
backtrackCeil(its, dp, i, w, selectedItems, totalWeight, comparisons) ==
    IF i > 0 /\ w > 0
    THEN IF dp[i + 1][w] # dp[i][w]
         THEN backtrackCeil(its, dp, i - 1, w - ceil(its[i].weight),
                            Append(selectedItems, its[i]),
                            totalWeight + 10 * ceil(its[i].weight), comparisons + 1)
         ELSE backtrackCeil(its, dp, i - 1, w, selectedItems, totalWeight, comparisons + 1)
    ELSE [selectedItems |-> selectedItems, totalWeight |-> totalWeight,
          comparisons |-> comparisons]

\* the backtracking loop "for (let i = n; i > 0 && w > 0; i--)"
RECURSIVE backtrack(_, _, _, _, _, _, _)
backtrack(its, dp, i, w, selectedItems, totalWeight, comparisons) ==
    IF i > 0 /\ w > 0
    THEN IF dp[i + 1][w] # dp[i][w]
         THEN backtrack(its, dp, i - 1, w - ceil(its[i].weight),
                        Append(selectedItems, its[i]),
                        totalWeight + its[i].weight, comparisons + 1)
         ELSE backtrack(its, dp, i - 1, w, selectedItems, totalWeight, comparisons + 1)
    ELSE [selectedItems |-> selectedItems, totalWeight |-> totalWeight,
          comparisons |-> comparisons]

\* the list as the backtracking pushed it, last item first
asPushed(q) == q

\* Array.prototype.reverse
reverse(q) == [i \in 1..Len(q) |-> q[Len(q) + 1 - i]]

\* KnapsackOptimization.optimizeValue
optimizeValue(its, capacity) ==
    LET n  == Len(its)
        dp == fillTable(its, capacity, n)
        bt == backtrack(its, dp, n, capacity, <<>>, 0, n * capacity)
    IN  [kind |-> "knapsack",
         selectedItems |-> reverse(bt.selectedItems),
         totalValue |-> dp[n + 1][capacity],
         totalWeight |-> bt.totalWeight,
         dataSize |-> n,
         comparisons |-> bt.comparisons]

----------------------------------------------------------------------------
(* BinarySearch and HashMapSearch (searching, in unnamed/part_001) *)

\* the fields a search may be asked for: every key of InventoryItem the
\* model carries
SearchFields == Fields \cup {"location"}

\* String(n) for a natural number: its decimal digits
RECURSIVE NatToString(_)
NatToString(n) ==
    IF n < 10 THEN << 48 + n >> ELSE Append(NatToString(n \div 10), 48 + (n % 10))

\* String(weight) for a weight carried in tenths: "0.3" for 3, "1.5" for
\* 15, "2" for 20
WeightToString(w) ==
    IF w % 10 = 0 THEN NatToString(w \div 10)
    ELSE NatToString(w \div 10) \o << 46, 48 + (w % 10) >>

\* String(object): "[object Object]"
ObjectToString == << 91, 111, 98, 106, 101, 99, 116, 32, 79, 98, 106, 101, 99, 116, 93 >>

\* BinarySearch.getValue / HashMapSearch.getValue: a string value itself,
\* String(value) for every other value
Search_getValue(item, searchBy) ==
    IF searchBy \in StringFields THEN item[searchBy]
    ELSE IF searchBy = "weight" THEN WeightToString(item[searchBy])
    ELSE IF searchBy \in NumberFields THEN NatToString(item[searchBy])
    ELSE ObjectToString

\* Array.prototype.sort with a consistent comparator: the stable order.
\* before[<<a, b>>] is "compare(a, b) < 0".  Insertion keeps an element
\* behind everything already placed that it must not precede.
RECURSIVE insertSorted(_, _, _)
insertSorted(sorted, x, before) ==
    IF sorted = <<>> THEN <<x>>
    ELSE LET last == sorted[Len(sorted)]
         IN  IF before[<<x, last>>]
             THEN Append(insertSorted(SubSeq(sorted, 1, Len(sorted) - 1), x, before), last)
             ELSE Append(sorted, x)

RECURSIVE stableSort(_, _)
stableSort(q, before) ==
    IF q = <<>> THEN <<>>
    ELSE insertSorted(stableSort(SubSeq(q, 1, Len(q) - 1), before), q[Len(q)], before)

\* the scan that keeps an item only when its value begins with the term
RECURSIVE scanStartsWith(_, _, _, _, _)
scanStartsWith(sortedItems, searchValue, searchBy, i, results) ==
    IF i < Len(sortedItems)
    THEN LET itemValue == toLowerCase(Search_getValue(sortedItems[i + 1], searchBy))
         IN  scanStartsWith(sortedItems, searchValue, searchBy, i + 1,
                  IF /\ Len(searchValue) <= Len(itemValue)
                     /\ substring0(itemValue, Len(searchValue)) = searchValue
                  THEN Append(results, sortedItems[i + 1]) ELSE results)
    ELSE results

\* the scan of BinarySearch.search over the sorted copy, from index i on
RECURSIVE scan(_, _, _, _, _)
scan(sortedItems, searchValue, searchBy, i, results) ==
    IF i < Len(sortedItems)
    THEN LET itemValue == toLowerCase(Search_getValue(sortedItems[i + 1], searchBy))
         IN  scan(sortedItems, searchValue, searchBy, i + 1,
                  IF includes(itemValue, searchValue)
                  THEN Append(results, sortedItems[i + 1]) ELSE results)
    ELSE results

\* "const sortedItems = [...items].sort(...)" of BinarySearch.search: the
\* sort reorders the copy in place; the arrays of the call afterwards
BinarySearch_sortCopy(its, searchBy) ==
    LET before == [p \in Range(its) \X Range(its) |->
                      StrLT(Search_getValue(p[1], searchBy), Search_getValue(p[2], searchBy))]
        heap == spread([items |-> its], "items", "sortedItems")
    IN  [heap EXCEPT !.sortedItems = stableSort(@, before)]

\* BinarySearch.search
BinarySearch_search(its, searchTerm, searchBy) ==
    LET sortedItems == BinarySearch_sortCopy(its, searchBy).sortedItems
    IN  [kind |-> "search",
         results |-> scan(sortedItems, toLowerCase(searchTerm), searchBy, 0, <<>>),
         dataSize |-> Len(its),
         comparisons |-> Len(sortedItems)]

\* Map.prototype.set
MapSet(m, k, v) == [x \in DOMAIN m \cup {k} |-> IF x = k THEN v ELSE m[x]]

\* the loop that makes an entry for every ending of the value instead of
\* every beginning
RECURSIVE addSuffixes(_, _, _, _)
addSuffixes(fieldMap, item, value, i) ==
    IF i <= Len(value)
    THEN LET substring == SubSeq(value, Len(value) - i + 1, Len(value))
             existingItems == IF substring \in DOMAIN fieldMap THEN fieldMap[substring] ELSE <<>>
             updated == IF \E k \in 1..Len(existingItems) : existingItems[k].id = item.id
                        THEN existingItems ELSE Append(existingItems, item)
         IN  addSuffixes(MapSet(fieldMap, substring, updated), item, value, i + 1)
    ELSE fieldMap

\* the loop "for (let i = 1; i <= value.length; i++)" of buildHashMap
RECURSIVE addPrefixes(_, _, _, _)
addPrefixes(fieldMap, item, value, i) ==
    IF i <= Len(value)
    THEN LET substring == substring0(value, i)
             existingItems == IF substring \in DOMAIN fieldMap THEN fieldMap[substring] ELSE <<>>
             updated == IF \E k \in 1..Len(existingItems) : existingItems[k].id = item.id
                        THEN existingItems ELSE Append(existingItems, item)
         IN  addPrefixes(MapSet(fieldMap, substring, updated), item, value, i + 1)
    ELSE fieldMap

\* items.forEach of buildHashMap, for one field
RECURSIVE buildFieldMap(_, _, _)
buildFieldMap(its, field, k) ==
    IF k = 0 THEN [x \in {} |-> <<>>]
    ELSE addPrefixes(buildFieldMap(its, field, k - 1), its[k],
                     toLowerCase(Search_getValue(its[k], field)), 1)

\* HashMapSearch.buildHashMap: every indexed field's map is replaced
buildHashMap(old, its) ==
    [f \in DOMAIN old \cup StringFields |->
        IF f \in StringFields THEN buildFieldMap(its, f, Len(its)) ELSE old[f]]

\* HashMapSearch.getTotalItemCount
RECURSIVE SumLens(_, _)
SumLens(m, K) ==
    IF K = {} THEN 0
    ELSE LET k == CHOOSE x \in K : TRUE IN Len(m[k]) + SumLens(m, K \ {k})

RECURSIVE getTotalItemCount(_, _)
getTotalItemCount(maps, F) ==
    IF F = {} THEN 0
    ELSE LET f == CHOOSE x \in F : TRUE
         IN  SumLens(maps[f], DOMAIN maps[f]) + getTotalItemCount(maps, F \ {f})

\* HashMapSearch.search that looks the term up as typed
HashMapSearch_searchAsTyped(maps, searchTerm, searchBy) ==
    [kind |-> "search",
     results |-> IF searchBy \in DOMAIN maps /\ searchTerm \in DOMAIN maps[searchBy]
                 THEN maps[searchBy][searchTerm] ELSE <<>>,
     dataSize |-> getTotalItemCount(maps, DOMAIN maps),
     comparisons |-> 1]

\* HashMapSearch.search
HashMapSearch_search(maps, searchTerm, searchBy) ==
    LET searchValue == toLowerCase(searchTerm)
    IN  [kind |-> "search",
         results |-> IF searchBy \in DOMAIN maps /\ searchValue \in DOMAIN maps[searchBy]
                     THEN maps[searchBy][searchValue] ELSE <<>>,
         dataSize |-> getTotalItemCount(maps, DOMAIN maps),
         comparisons |-> 1]

\* the search terms tried: "", "a", "A", "B", "aB", "i", "I1", "e", "St", "z", "5"
Terms == { <<>>, <<97>>, <<65>>, <<66>>, <<97, 66>>, <<105>>, <<73, 49>>,
           <<101>>, <<83, 116>>, <<122>>, <<53>> }

----------------------------------------------------------------------------
(* GreedyBestFit (spaceOptimization, in components/Reports.tsx) *)

\* the JS number Infinity: larger than every number the model computes
Infinity == 999999

\* an absent optional itemId
NoItemId == <<>>

MkSpace(id, capacity, occupied) ==
    [id |-> id, capacity |-> capacity, occupied |-> occupied,
     available |-> capacity - occupied, itemId |-> NoItemId]

\* Space units "S1".."S4": empty, partly used, full, and nearly full
SpaceUniverse ==
    { MkSpace(<<83, 49>>, 3, 0), MkSpace(<<83, 50>>, 3, 1),
      MkSpace(<<83, 51>>, 2, 2), MkSpace(<<83, 52>>, 4, 3) }

SpaceLists == DistinctSeqs(SpaceUniverse, MaxSpaces)

\* value / weight as a JS number: NaN for 0/0, Infinity for v/0, else the ratio
densityKind(item) ==
    IF item.weight = 0 THEN (IF item.value = 0 THEN "NaN" ELSE "Infinity") ELSE "finite"

\* the sign of the comparator's result bDensity - aDensity; NaN counts as 0,
\* as Array.prototype.sort treats it
compareDensity(a, b) ==
    LET ka == densityKind(a)
        kb == densityKind(b)
    IN  IF ka = "NaN" \/ kb = "NaN" THEN 0
        ELSE IF ka = "Infinity" /\ kb = "Infinity" THEN 0
        ELSE IF kb = "Infinity" THEN 1
        ELSE IF ka = "Infinity" THEN -1
        ELSE LET d == b.value * a.weight - a.value * b.weight
             IN  IF d > 0 THEN 1 ELSE IF d < 0 THEN -1 ELSE 0

\* a comparator is consistent when "compares equal" is transitive
consistentComparator(its) ==
    \A a, b, c \in Range(its) :
        (compareDensity(a, b) = 0 /\ compareDensity(b, c) = 0) => compareDensity(a, c) = 0

Orderings(q) ==
    { p \in [1..Len(q) -> Range(q)] : \A x \in Range(q) : \E i \in 1..Len(q) : p[i] = x }

\* [...items].sort(by density, descending): the stable order, or, when a NaN
\* density makes the comparator inconsistent, any order (the order is then
\* implementation-defined)
sortByDensity(its) ==
    IF consistentComparator(its)
    THEN { stableSort(its, [p \in Range(its) \X Range(its) |-> compareDensity(p[1], p[2]) < 0]) }
    ELSE Orderings(its)

\* "const sortedItems = [...items].sort(...)" of allocateSpace: the arrays
\* of the call after the sort has reordered the copy, one for every order
\* the sort can produce
GreedyBestFit_sortCopy(its) ==
    LET heap == spread([items |-> its], "items", "sortedItems")
    IN  { [heap EXCEPT !.sortedItems = q] : q \in sortByDensity(heap.sortedItems) }

\* the scan that keeps the first space the item fits in
RECURSIVE findBestSpaceFirstFit(_, _, _, _, _, _)
findBestSpaceFirstFit(sp, pool, item, k, bestSpace, bestFit) ==
    IF k > Len(pool) THEN bestSpace
    ELSE LET space == sp[pool[k]]
             wastedSpace == space.available - item.quantity
         IN  IF space.available >= item.quantity /\ bestSpace = 0
             THEN findBestSpaceFirstFit(sp, pool, item, k + 1, pool[k], wastedSpace)
             ELSE findBestSpaceFirstFit(sp, pool, item, k + 1, bestSpace, bestFit)

\* the scan that passes over a space the item would fill exactly ("available
\* > item.quantity")
RECURSIVE findBestSpaceWithRoomLeft(_, _, _, _, _, _)
findBestSpaceWithRoomLeft(sp, pool, item, k, bestSpace, bestFit) ==
    IF k > Len(pool) THEN bestSpace
    ELSE LET space == sp[pool[k]]
             wastedSpace == space.available - item.quantity
         IN  IF space.available > item.quantity /\ wastedSpace < bestFit
             THEN findBestSpaceWithRoomLeft(sp, pool, item, k + 1, pool[k], wastedSpace)
             ELSE findBestSpaceWithRoomLeft(sp, pool, item, k + 1, bestSpace, bestFit)

\* the scan "for (const space of spaces)" over the candidate pool; pool holds
\* the positions of the candidate objects in the caller's array, bestSpace = 0
\* is null
RECURSIVE findBestSpace(_, _, _, _, _, _)
findBestSpace(sp, pool, item, k, bestSpace, bestFit) ==
    IF k > Len(pool) THEN bestSpace
    ELSE LET space == sp[pool[k]]
             wastedSpace == space.available - item.quantity
         IN  IF space.available >= item.quantity /\ wastedSpace < bestFit
             THEN findBestSpace(sp, pool, item, k + 1, pool[k], wastedSpace)
             ELSE findBestSpace(sp, pool, item, k + 1, bestSpace, bestFit)

\* the update that forgets to raise occupied
updateSpaceAvailableOnly(space, item) ==
    [space EXCEPT !.available = @ - item.quantity, !.itemId = item.id]

\* the update that names the item only where the space names none yet
updateSpaceKeepItemId(space, item) ==
    [space EXCEPT !.available = @ - item.quantity,
                  !.occupied = @ + item.quantity,
                  !.itemId = IF @ = NoItemId THEN item.id ELSE @]

\* "Update space availability": the in-place update of the chosen space
updateSpace(space, item) ==
    [space EXCEPT !.available = @ - item.quantity,
                  !.occupied = @ + item.quantity,
                  !.itemId = item.id]

\* spaces.splice(spaces.indexOf(bestSpace), 1)
removeFromPool(pool, idx) == SelectSeq(pool, LAMBDA i : i # idx)

\* the loop "for (const item of sortedItems)".  st.history records the space
\* objects after each allocation.
RECURSIVE allocateLoop(_, _, _)
allocateLoop(sortedItems, k, st) ==
    IF k > Len(sortedItems) THEN st
    ELSE LET item == sortedItems[k]
             bestSpace == findBestSpace(st.spaces, st.pool, item, 1, 0, Infinity)
         IN  IF bestSpace # 0
             THEN LET sp == [st.spaces EXCEPT ![bestSpace] = updateSpace(@, item)]
                  IN  allocateLoop(sortedItems, k + 1,
                        [st EXCEPT
                           !.allocations = Append(@,
                               [item |-> item, allocatedSpace |-> bestSpace,
                                efficiency |-> <<item.quantity * 100,
                                                 st.spaces[bestSpace].capacity>>]),
                           !.spaces = sp,
                           !.pool = IF sp[bestSpace].available = 0
                                    THEN removeFromPool(@, bestSpace) ELSE @,
                           !.history = Append(@, sp),
                           !.comparisons = @ + Len(st.pool)])
             ELSE allocateLoop(sortedItems, k + 1,
                        [st EXCEPT !.unallocated = Append(@, item),
                                   !.comparisons = @ + Len(st.pool)])

\* the positions of the elements of q that satisfy the filter "available > 0"
RECURSIVE availablePositions(_, _)
availablePositions(sp, k) ==
    IF k > Len(sp) THEN <<>>
    ELSE (IF sp[k].available > 0 THEN <<k>> ELSE <<>>) \o availablePositions(sp, k + 1)

\* GreedyBestFit.allocateSpace, given the order the sort produced.  The
\* comparisons reported are those of the scans; how often the sort calls its
\* comparator depends on the JS engine and is left out.
allocateSpace(sortedItems, availableSpaces) ==
    allocateLoop(sortedItems, 1,
        [spaces |-> availableSpaces,
         pool |-> availablePositions(availableSpaces, 1),
         allocations |-> <<>>, unallocated |-> <<>>,
         history |-> <<>>, comparisons |-> 0])

----------------------------------------------------------------------------
(* DijkstraPathFinder (algorithms/dijkstra.ts) *)

\* Locations A-1-1, A-1-2, A-1-3, B-2-1: A-1-1 and A-1-3 are equally far
\* from A-1-2
LocationUniverse == { Loc(65, 1, 1), Loc(65, 1, 2), Loc(65, 1, 3), Loc(66, 2, 1) }

\* a location no graph of the model contains: C-1-1
AbsentLocation == Loc(67, 1, 1)

\* Sequences over S of length at most n, repetitions allowed
RECURSIVE SeqsUpTo(_, _)
SeqsUpTo(S, n) ==
    IF n = 0 THEN { <<>> }
    ELSE LET shorter == SeqsUpTo(S, n - 1)
         IN  shorter \cup { Append(q, x) : <<q, x>> \in shorter \X S }

LocationLists == SeqsUpTo(LocationUniverse, MaxLocs)

Abs(x) == IF x < 0 THEN -x ELSE x

\* DijkstraPathFinder.calculateDistance
calculateDistance(loc1, loc2) ==
    LET aisle1 == loc1.aisle[1] - 64
        aisle2 == loc2.aisle[1] - 64
        aisleDistance == Abs(aisle1 - aisle2) * 10
        shelfDistance == Abs(loc1.shelf - loc2.shelf) * 5
        positionDistance == Abs(loc1.position - loc2.position) * 2
    IN  aisleDistance + shelfDistance + positionDistance

\* the matrix with the entries above the diagonal only ("graph[j][i] =
\* distance" left out)
buildGraphUpperOnly(locs) ==
    [i \in 1..Len(locs) |->
        [j \in 1..Len(locs) |->
            IF i = j THEN 0
            ELSE IF i < j THEN calculateDistance(locs[i], locs[j])
                 ELSE Infinity]]

\* the matrix initializeWarehouseGraph builds: row i + 1 is the source's graph[i]
buildGraph(locs) ==
    [i \in 1..Len(locs) |->
        [j \in 1..Len(locs) |->
            IF i = j THEN 0
            ELSE IF i < j THEN calculateDistance(locs[i], locs[j])
                 ELSE calculateDistance(locs[j], locs[i])]]

\* an initialization that adds the new locations to those it has
initializeWarehouseGraphAppend(oldLocations, oldGraph, locs) ==
    [locations |-> oldLocations \o locs, graph |-> buildGraph(oldLocations \o locs)]

\* DijkstraPathFinder.initializeWarehouseGraph: both fields are assigned
\* anew, whatever they held
initializeWarehouseGraph(oldLocations, oldGraph, locs) ==
    [locations |-> locs, graph |-> buildGraph(locs)]

\* findLocationIndex that compares aisle and shelf only
RECURSIVE findLocationIndexNoPosition(_, _, _)
findLocationIndexNoPosition(locs, location, k) ==
    IF k >= Len(locs) THEN -1
    ELSE IF /\ locs[k + 1].aisle = location.aisle
            /\ locs[k + 1].shelf = location.shelf
         THEN k
         ELSE findLocationIndexNoPosition(locs, location, k + 1)

\* DijkstraPathFinder.findLocationIndex: Array.prototype.findIndex from
\* index k on, -1 when nothing matches
RECURSIVE findLocationIndex(_, _, _)
findLocationIndex(locs, location, k) ==
    IF k >= Len(locs) THEN -1
    ELSE IF /\ locs[k + 1].aisle = location.aisle
            /\ locs[k + 1].shelf = location.shelf
            /\ locs[k + 1].position = location.position
         THEN k
         ELSE findLocationIndex(locs, location, k + 1)

\* "Find unvisited node with minimum distance": the scan over j
RECURSIVE findMinNode(_, _, _, _, _)
findMinNode(distances, visited, j, minDistance, currentNode) ==
    IF j >= Len(distances) THEN currentNode
    ELSE IF ~visited[j + 1] /\ distances[j + 1] < minDistance
         THEN findMinNode(distances, visited, j + 1, distances[j + 1], j)
         ELSE findMinNode(distances, visited, j + 1, minDistance, currentNode)

\* the relaxation that takes the edge length for the new distance
RECURSIVE relaxEdgeOnly(_, _, _, _)
relaxEdgeOnly(g, st, currentNode, neighbor) ==
    IF neighbor >= Len(g) THEN st
    ELSE IF ~st.visited[neighbor + 1] /\ g[currentNode + 1][neighbor + 1] # Infinity
         THEN LET newDistance == g[currentNode + 1][neighbor + 1]
              IN  IF newDistance < st.distances[neighbor + 1]
                  THEN relaxEdgeOnly(g,
                         [st EXCEPT !.distances[neighbor + 1] = newDistance,
                                    !.previous[neighbor + 1] = currentNode],
                         currentNode, neighbor + 1)
                  ELSE relaxEdgeOnly(g, st, currentNode, neighbor + 1)
         ELSE relaxEdgeOnly(g, st, currentNode, neighbor + 1)

\* the relaxation that also takes a way round that is as long as the way
\* known ("<=" for "<")
RECURSIVE relaxOrEqual(_, _, _, _)
relaxOrEqual(g, st, currentNode, neighbor) ==
    IF neighbor >= Len(g) THEN st
    ELSE IF ~st.visited[neighbor + 1] /\ g[currentNode + 1][neighbor + 1] # Infinity
         THEN LET newDistance == st.distances[currentNode + 1] + g[currentNode + 1][neighbor + 1]
              IN  IF newDistance <= st.distances[neighbor + 1]
                  THEN relaxOrEqual(g,
                         [st EXCEPT !.distances[neighbor + 1] = newDistance,
                                    !.previous[neighbor + 1] = currentNode],
                         currentNode, neighbor + 1)
                  ELSE relaxOrEqual(g, st, currentNode, neighbor + 1)
         ELSE relaxOrEqual(g, st, currentNode, neighbor + 1)

\* "Update distances to neighbors": the loop over neighbor
RECURSIVE relax(_, _, _, _)
relax(g, st, currentNode, neighbor) ==
    IF neighbor >= Len(g) THEN st
    ELSE IF ~st.visited[neighbor + 1] /\ g[currentNode + 1][neighbor + 1] # Infinity
         THEN LET newDistance == st.distances[currentNode + 1] + g[currentNode + 1][neighbor + 1]
              IN  IF newDistance < st.distances[neighbor + 1]
                  THEN relax(g,
                         [st EXCEPT !.distances[neighbor + 1] = newDistance,
                                    !.previous[neighbor + 1] = currentNode],
                         currentNode, neighbor + 1)
                  ELSE relax(g, st, currentNode, neighbor + 1)
         ELSE relax(g, st, currentNode, neighbor + 1)

\* the main loop "for (let i = 0; i < n; i++)" of dijkstra
RECURSIVE dijkstraLoop(_, _, _, _)
dijkstraLoop(g, end, i, st) ==
    IF i >= Len(g) THEN st
    ELSE LET currentNode == findMinNode(st.distances, st.visited, 0, Infinity, -1)
         IN  IF currentNode = -1 THEN st
             ELSE LET marked == [st EXCEPT !.visited[currentNode + 1] = TRUE,
                                           !.visitedNodes = Append(@, currentNode)]
                  IN  IF currentNode = end THEN marked
                      ELSE dijkstraLoop(g, end, i + 1, relax(g, marked, currentNode, 0))

\* "Reconstruct path": follow previous from end; null is -1
RECURSIVE reconstructPath(_, _, _)
reconstructPath(previous, current, path) ==
    IF current = -1 THEN path
    ELSE reconstructPath(previous, previous[current + 1], <<current>> \o path)

\* DijkstraPathFinder.dijkstra(start, end) on node indices 0..n-1
dijkstra(g, start, end) ==
    LET n  == Len(g)
        st == dijkstraLoop(g, end, 0,
                [distances |-> [k \in 1..n |-> IF k = start + 1 THEN 0 ELSE Infinity],
                 previous |-> [k \in 1..n |-> -1],
                 visited |-> [k \in 1..n |-> FALSE],
                 visitedNodes |-> <<>>])
    IN  [path |-> reconstructPath(st.previous, end, <<>>),
         distance |-> st.distances[end + 1],
         visitedNodes |-> st.visitedNodes]

\* the scan that also takes a destination that is as near as the nearest
\* so far ("<=" for "<")
RECURSIVE findNearestOrEqual(_, _, _, _, _, _, _)
findNearestOrEqual(g, destIndices, visited, currentLocation, k, nearestLocation, nearestDistance) ==
    IF k > Len(destIndices) THEN nearestLocation
    ELSE LET destIndex == destIndices[k]
         IN  IF destIndex \notin visited
             THEN LET distance == dijkstra(g, currentLocation, destIndex).distance
                  IN  IF distance <= nearestDistance
                      THEN findNearestOrEqual(g, destIndices, visited, currentLocation, k + 1,
                                              destIndex, distance)
                      ELSE findNearestOrEqual(g, destIndices, visited, currentLocation, k + 1,
                                              nearestLocation, nearestDistance)
             ELSE findNearestOrEqual(g, destIndices, visited, currentLocation, k + 1,
                                     nearestLocation, nearestDistance)

\* "Find nearest unvisited destination": the loop over destIndices
RECURSIVE findNearest(_, _, _, _, _, _, _)
findNearest(g, destIndices, visited, currentLocation, k, nearestLocation, nearestDistance) ==
    IF k > Len(destIndices) THEN nearestLocation
    ELSE LET destIndex == destIndices[k]
         IN  IF destIndex \notin visited
             THEN LET distance == dijkstra(g, currentLocation, destIndex).distance
                  IN  IF distance < nearestDistance
                      THEN findNearest(g, destIndices, visited, currentLocation, k + 1,
                                       destIndex, distance)
                      ELSE findNearest(g, destIndices, visited, currentLocation, k + 1,
                                       nearestLocation, nearestDistance)
             ELSE findNearest(g, destIndices, visited, currentLocation, k + 1,
                              nearestLocation, nearestDistance)

\* the loop with the condition "visited.size < destIndices.length"
RECURSIVE pickingLoopStrict(_, _, _)
pickingLoopStrict(g, destIndices, st) ==
    IF Cardinality(st.visited) < Len(destIndices)
    THEN LET nearestLocation ==
                 findNearest(g, destIndices, st.visited, st.currentLocation, 1, -1, Infinity)
         IN  IF nearestLocation # -1
             THEN LET result == dijkstra(g, st.currentLocation, nearestLocation)
                  IN  pickingLoopStrict(g, destIndices,
                        [path |-> st.path \o Tail(result.path),
                         visitedNodes |-> st.visitedNodes \o result.visitedNodes,
                         totalDistance |-> st.totalDistance + result.distance,
                         visited |-> st.visited \cup {nearestLocation},
                         currentLocation |-> nearestLocation,
                         comparisons |-> st.comparisons + Len(destIndices),
                         iterations |-> st.iterations + 1])
             ELSE [st EXCEPT !.comparisons = @ + Len(destIndices),
                             !.iterations = @ + 1]
    ELSE st

\* the nearest-neighbour loop "while (visited.size <= destIndices.length)";
\* st.iterations counts the times its body is entered
RECURSIVE pickingLoop(_, _, _)
pickingLoop(g, destIndices, st) ==
    IF Cardinality(st.visited) <= Len(destIndices)
    THEN LET nearestLocation ==
                 findNearest(g, destIndices, st.visited, st.currentLocation, 1, -1, Infinity)
         IN  IF nearestLocation # -1
             THEN LET result == dijkstra(g, st.currentLocation, nearestLocation)
                  IN  pickingLoop(g, destIndices,
                        [path |-> st.path \o Tail(result.path),
                         visitedNodes |-> st.visitedNodes \o result.visitedNodes,
                         totalDistance |-> st.totalDistance + result.distance,
                         visited |-> st.visited \cup {nearestLocation},
                         currentLocation |-> nearestLocation,
                         comparisons |-> st.comparisons + Len(destIndices),
                         iterations |-> st.iterations + 1])
             ELSE [st EXCEPT !.comparisons = @ + Len(destIndices),
                             !.iterations = @ + 1]
    ELSE st

\* DijkstraPathFinder.findOptimalPickingPath
findOptimalPickingPath(locs, g, startLocation, destinationLocations) ==
    LET startIndex  == findLocationIndex(locs, startLocation, 0)
        destIndices == [k \in 1..Len(destinationLocations) |->
                           findLocationIndex(locs, destinationLocations[k], 0)]
    IN  IF startIndex = -1 \/ -1 \in Range(destIndices)
        THEN [kind |-> "error", message |-> "Invalid location specified"]
        ELSE LET st == pickingLoop(g, destIndices,
                         [path |-> <<startIndex>>, visitedNodes |-> <<startIndex>>,
                          totalDistance |-> 0, visited |-> {startIndex},
                          currentLocation |-> startIndex, comparisons |-> 0,
                          iterations |-> 0])
             IN  [kind |-> "path", path |-> st.path, totalDistance |-> st.totalDistance,
                  visitedNodes |-> st.visitedNodes, dataSize |-> Len(locs),
                  comparisons |-> st.comparisons, iterations |-> st.iterations]

\* the locations a route query is asked about: those of the graph, and one
\* that is in no graph
QueryLocations == LocationUniverse \cup {AbsentLocation}

----------------------------------------------------------------------------
(* Sample data and local storage (data/sampleData, hooks/useWarehouseData) *)

\* the inventory in the order of its ids: I1, I2, ...
SampleOrder == [k \in 1..Cardinality(ItemUniverse) |->
                   CHOOSE x \in ItemUniverse : x.id = << 73, 48 + k >>]

\* sampleInventoryItems: the first two items
SampleInventory == SubSeq(SampleOrder, 1, 2)

\* sampleWarehouseSpaces as the module defines it: an empty unit and a unit
\* that holds item I1
SampleSpaces ==
    << MkSpace(<<83, 49>>, 3, 0),
       [MkSpace(<<83, 50>>, 3, 1) EXCEPT !.itemId = <<73, 49>>] >>

\* a JSON string literal: the value between double quotes
Quote(str) == <<34>> \o str \o <<34>>

Unquote(text) == SubSeq(text, 2, Len(text) - 1)

\* a JSON number without fraction, read back
RECURSIVE StringToNat(_)
StringToNat(text) ==
    IF text = <<>> THEN 0
    ELSE 10 * StringToNat(SubSeq(text, 1, Len(text) - 1)) + (text[Len(text)] - 48)

\* a JSON number with at most one decimal, read back as tenths
StringToWeight(text) ==
    IF \E k \in 1..Len(text) : text[k] = 46
    THEN LET dot == CHOOSE k \in 1..Len(text) : text[k] = 46
         IN  10 * StringToNat(SubSeq(text, 1, dot - 1)) + (text[dot + 1] - 48)
    ELSE 10 * StringToNat(text)

\* JSON.stringify of an inventory: every property's JSON text, item by item
stringifyInventory(inventory) ==
    [k \in 1..Len(inventory) |->
        LET x == inventory[k]
        IN  [id |-> Quote(x.id), name |-> Quote(x.name), category |-> Quote(x.category),
             supplier |-> Quote(x.supplier), quantity |-> NatToString(x.quantity),
             weight |-> WeightToString(x.weight), value |-> NatToString(x.value),
             location |-> [aisle |-> Quote(x.location.aisle),
                           shelf |-> NatToString(x.location.shelf),
                           position |-> NatToString(x.location.position)]]]

\* JSON.parse of a stored inventory
parseInventory(text) ==
    [k \in 1..Len(text) |->
        LET t == text[k]
        IN  [id |-> Unquote(t.id), name |-> Unquote(t.name), category |-> Unquote(t.category),
             supplier |-> Unquote(t.supplier), quantity |-> StringToNat(t.quantity),
             weight |-> StringToWeight(t.weight), value |-> StringToNat(t.value),
             location |-> [aisle |-> Unquote(t.location.aisle),
                           shelf |-> StringToNat(t.location.shelf),
                           position |-> StringToNat(t.location.position)]]]

\* JSON.stringify of the space units; an undefined itemId is left out
stringifySpaces(sp) ==
    [k \in 1..Len(sp) |->
        [id |-> Quote(sp[k].id), capacity |-> NatToString(sp[k].capacity),
         occupied |-> NatToString(sp[k].occupied), available |-> NatToString(sp[k].available),
         itemId |-> IF sp[k].itemId = NoItemId THEN <<>> ELSE Quote(sp[k].itemId)]]

\* JSON.parse of the stored space units
parseSpaces(text) ==
    [k \in 1..Len(text) |->
        [id |-> Unquote(text[k].id), capacity |-> StringToNat(text[k].capacity),
         occupied |-> StringToNat(text[k].occupied), available |-> StringToNat(text[k].available),
         itemId |-> IF text[k].itemId = <<>> THEN NoItemId ELSE Unquote(text[k].itemId)]]

\* local storage with neither key set; a key that is set holds one text
EmptyStorage == [inventory |-> <<>>, spaces |-> <<>>]

\* the save effect of the inventory state
saveInventory(storage, inventory, isLoading) ==
    IF ~isLoading /\ Len(inventory) > 0
    THEN [storage EXCEPT !.inventory = << stringifyInventory(inventory) >>]
    ELSE storage

\* the save effect of the warehouseSpaces state
saveSpaces(storage, sp, isLoading) ==
    IF ~isLoading /\ Len(sp) > 0
    THEN [storage EXCEPT !.spaces = << stringifySpaces(sp) >>]
    ELSE storage

\* the Search view's state as useState creates it
NewSearchView == [searchTerm |-> <<>>, searchBy |-> "name", searchAlgorithm |-> "hashMap"]

\* the hook's state where the engines are used on their own
HookAtRest ==
    /\ loading = FALSE
    /\ localStorage = EmptyStorage
    /\ sampleWarehouseSpaces = SampleSpaces
    /\ sharesSample = [inventory |-> FALSE, spaces |-> FALSE]
    /\ searchView = NewSearchView

----------------------------------------------------------------------------
(* Calls and results *)

NoCall == [op |-> "none"]
NoResult == [kind |-> "none"]

Idle == call.op = "none"

\* MergeSort.sort(items, sortBy)
MergeSort_sort ==
    /\ Idle
    /\ \E sortBy \in Fields :
         LET r == mergeSort(items, sortBy, resetCounters(msCounters))
         IN  /\ msCounters' = r.cnt
             /\ call' = [op |-> "MergeSort.sort", items |-> items, sortBy |-> sortBy,
                         tallies |-> msCounters]
             /\ ret' = [kind |-> "sort", sortedItems |-> r.arr,
                        dataSize |-> Len(items),
                        comparisons |-> r.cnt.comparisons, swaps |-> r.cnt.swaps]
    /\ UNCHANGED <<items, spaces, hashMaps, locations, graph, qsCounters>>
    /\ UNCHANGED hookVars

\* QuickSort.sort(items, sortBy)
QuickSort_sort ==
    /\ Idle
    /\ \E sortBy \in Fields :
         LET r == QuickSort_run(items, sortBy, qsCounters)
         IN  /\ qsCounters' = r.cnt
             /\ items' = r.items
             /\ call' = [op |-> "QuickSort.sort", items |-> items, sortBy |-> sortBy,
                         tallies |-> qsCounters]
             /\ ret' = [kind |-> "sort", sortedItems |-> r.sortedItems,
                        dataSize |-> Len(items),
                        comparisons |-> r.cnt.comparisons, swaps |-> r.cnt.swaps,
                        exchanges |-> r.exchanges, partitions |-> r.partitions]
    /\ UNCHANGED <<spaces, hashMaps, locations, graph, msCounters>>
    /\ UNCHANGED hookVars

\* KnapsackOptimization.optimizeValue(items, capacity)
OptimizeValue ==
    /\ Idle
    /\ \E capacity \in 0..MaxCapacity :
         /\ call' = [op |-> "optimizeValue", items |-> items, capacity |-> capacity]
         /\ ret' = optimizeValue(items, capacity)
    /\ UNCHANGED <<items, spaces, hashMaps, locations, graph, msCounters, qsCounters>>
    /\ UNCHANGED hookVars

\* BinarySearch.search(items, searchTerm, searchBy)
BinarySearch_searchCall ==
    /\ Idle
    /\ \E searchTerm \in Terms, searchBy \in SearchFields :
         /\ call' = [op |-> "BinarySearch.search", items |-> items,
                     searchTerm |-> searchTerm, searchBy |-> searchBy]
         /\ ret' = BinarySearch_search(items, searchTerm, searchBy)
         /\ items' = BinarySearch_sortCopy(items, searchBy).items
    /\ UNCHANGED <<spaces, hashMaps, locations, graph, msCounters, qsCounters>>
    /\ UNCHANGED hookVars

\* HashMapSearch.buildHashMap(items)
BuildHashMap ==
    /\ Idle
    /\ hashMaps' = buildHashMap(hashMaps, items)
    /\ call' = [op |-> "buildHashMap", items |-> items]
    /\ ret' = [kind |-> "void"]
    /\ UNCHANGED <<items, spaces, locations, graph, msCounters, qsCounters>>
    /\ UNCHANGED hookVars

\* HashMapSearch.search(searchTerm, searchBy)
HashMapSearch_searchCall ==
    /\ Idle
    /\ \E searchTerm \in Terms, searchBy \in StringFields :
         /\ call' = [op |-> "HashMapSearch.search",
                     searchTerm |-> searchTerm, searchBy |-> searchBy]
         /\ ret' = HashMapSearch_search(hashMaps, searchTerm, searchBy)
    /\ UNCHANGED <<items, spaces, hashMaps, locations, graph, msCounters, qsCounters>>
    /\ UNCHANGED hookVars

\* GreedyBestFit.allocateSpace(items, spaces)
AllocateSpace ==
    /\ Idle
    /\ \E heap \in GreedyBestFit_sortCopy(items) :
         LET sortedItems == heap.sortedItems
             r == allocateSpace(sortedItems, spaces)
         IN  /\ spaces' = r.spaces
             /\ items' = heap.items
             /\ call' = [op |-> "allocateSpace", items |-> items,
                         availableSpaces |-> spaces, sortedItems |-> sortedItems]
             /\ ret' = [kind |-> "allocation", allocations |-> r.allocations,
                        unallocated |-> r.unallocated, dataSize |-> Len(items),
                        scanComparisons |-> r.comparisons, history |-> r.history]
    /\ UNCHANGED <<hashMaps, locations, graph, msCounters, qsCounters>>
    /\ UNCHANGED hookVars

\* DijkstraPathFinder.initializeWarehouseGraph(locations)
InitializeWarehouseGraph ==
    /\ Idle
    /\ \E locs \in LocationLists :
         LET r == initializeWarehouseGraph(locations, graph, locs)
         IN  /\ locations' = r.locations
             /\ graph' = r.graph
             /\ call' = [op |-> "initializeWarehouseGraph", locations |-> locs,
                         replaced |-> locations]
    /\ ret' = [kind |-> "void"]
    /\ UNCHANGED <<items, spaces, hashMaps, msCounters, qsCounters>>
    /\ UNCHANGED hookVars

\* DijkstraPathFinder.findOptimalPickingPath(startLocation, destinationLocations)
FindOptimalPickingPath ==
    /\ Idle
    /\ \E startLocation \in QueryLocations,
          destinationLocations \in SeqsUpTo(QueryLocations, MaxDests) :
         /\ call' = [op |-> "findOptimalPickingPath", startLocation |-> startLocation,
                     destinationLocations |-> destinationLocations]
         /\ ret' = findOptimalPickingPath(locations, graph, startLocation, destinationLocations)
    /\ UNCHANGED <<items, spaces, hashMaps, locations, graph, msCounters, qsCounters>>
    /\ UNCHANGED hookVars

\* the single-pair primitive dijkstra(start, end), on every pair of nodes
Dijkstra ==
    /\ Idle
    /\ \E start \in 0..(Len(graph) - 1), end \in 0..(Len(graph) - 1) :
         /\ call' = [op |-> "dijkstra", start |-> start, end |-> end]
         /\ ret' = [kind |-> "dijkstra"] @@ dijkstra(graph, start, end)
    /\ UNCHANGED <<items, spaces, hashMaps, locations, graph, msCounters, qsCounters>>
    /\ UNCHANGED hookVars

\* The caller takes the result (setSortedInventory, setSearchResults, ...);
\* results are per-call values, the engines keep only their instance state.
Return ==
    /\ ~Idle
    /\ call' = NoCall
    /\ ret' = NoResult
    /\ UNCHANGED <<items, spaces, hashMaps, locations, graph, msCounters, qsCounters>>
    /\ UNCHANGED hookVars

NoHashMaps == [f \in {} |-> <<>>]

InitEngines ==
    /\ HookAtRest
    /\ hashMaps = NoHashMaps
    /\ locations = <<>>
    /\ graph = <<>>
    /\ msCounters = ZeroCounters
    /\ qsCounters = ZeroCounters
    /\ call = NoCall
    /\ ret = NoResult

\* every item list of the bound, no spaces; used for the engines that take items only
InitSort ==
    /\ items \in ItemLists
    /\ spaces = <<>>
    /\ InitEngines

\* every item list the sorters are run on: up to MaxSortItems items, so
\* that a half of a merge can hold two items
InitSorters ==
    /\ items \in SortLists
    /\ spaces = <<>>
    /\ InitEngines

NextSort == MergeSort_sort \/ QuickSort_sort \/ Return

SpecSort == InitSorters /\ [][NextSort]_vars

NextKnapsack == OptimizeValue \/ Return

SpecKnapsack == InitSort /\ [][NextKnapsack]_vars

NextSearch == BinarySearch_searchCall \/ BuildHashMap \/ HashMapSearch_searchCall \/ Return

SpecSearch == InitSort /\ [][NextSearch]_vars

\* every item list and every list of space units of the bounds
InitAllocation ==
    /\ items \in ItemLists
    /\ spaces \in SpaceLists
    /\ InitEngines

NextAllocation == AllocateSpace \/ Return

SpecAllocation == InitAllocation /\ [][NextAllocation]_vars

\* Goods of one supplier with positive quantities and weights: I1, I2, I3
\* and a bulky item of low value, I6 (quantity 2, weight 2, value 2), the
\* least dense of them
BulkyUniverse ==
    { SampleOrder[1], SampleOrder[2], SampleOrder[3],
      MkItem(<<73, 54>>, <<99>>, <<70>>, <<115>>, 2, 20, 2, Loc(66, 2, 1)) }

\* every list of these goods and every list of space units of the bounds
InitBulky ==
    /\ items \in DistinctSeqs(BulkyUniverse, MaxItems)
    /\ spaces \in SpaceLists
    /\ InitEngines

SpecBulky == InitBulky /\ [][NextAllocation]_vars

\* a route planner that has not been initialized yet
InitRoute ==
    /\ items = <<>>
    /\ spaces = <<>>
    /\ InitEngines

NextRoute == InitializeWarehouseGraph \/ FindOptimalPickingPath \/ Dijkstra \/ Return

SpecRoute == InitRoute /\ [][NextRoute]_vars

\* The item engines together, on the empty inventory, on every inventory
\* of one item and on the first MaxItems items of the inventory, without
\* space units and with the sample's (SpecAllocation has every list of
\* space units).  The sorter
\* instances may have been used before: their tallies are those a new
\* instance has or those an earlier sort of three items left behind.
UsedCounters == [comparisons |-> 3, swaps |-> 1]

Init ==
    /\ items \in { q \in ItemLists : Len(q) <= 1 }
                  \cup { SubSeq(SampleOrder, 1, Min(MaxItems, Len(SampleOrder))) }
    /\ spaces \in { <<>>, SampleSpaces }
    /\ hashMaps = NoHashMaps
    /\ locations = <<>>
    /\ graph = <<>>
    /\ msCounters \in {ZeroCounters, UsedCounters}
    /\ qsCounters \in {ZeroCounters, UsedCounters}
    /\ call = NoCall
    /\ ret = NoResult
    /\ HookAtRest

\* The route planner shares no state with the item engines and is explored
\* by SpecRoute.
Next ==
    \/ MergeSort_sort
    \/ QuickSort_sort
    \/ BinarySearch_searchCall
    \/ BuildHashMap
    \/ HashMapSearch_searchCall
    \/ AllocateSpace
    \/ OptimizeValue
    \/ Return

Spec == Init /\ [][Next]_vars

----------------------------------------------------------------------------
(* useWarehouseData and the views that use it *)

engineVars == <<hashMaps, locations, graph, msCounters, qsCounters>>

\* loadData, the mount effect, and the save effects that run after it
loadData ==
    /\ Idle
    /\ loading
    /\ LET savedInventory == localStorage.inventory
           savedSpaces    == localStorage.spaces
           inventory == IF savedInventory # <<>> THEN parseInventory(savedInventory[1])
                        ELSE SampleInventory
           sp        == IF savedSpaces # <<>> THEN parseSpaces(savedSpaces[1])
                        ELSE sampleWarehouseSpaces
           stored    == [inventory |-> IF savedInventory # <<>> THEN savedInventory
                                       ELSE << stringifyInventory(SampleInventory) >>,
                         spaces    |-> IF savedSpaces # <<>> THEN savedSpaces
                                       ELSE << stringifySpaces(sampleWarehouseSpaces) >>]
       IN  /\ items' = inventory
           /\ spaces' = sp
           /\ sharesSample' = [inventory |-> savedInventory = <<>>, spaces |-> savedSpaces = <<>>]
           /\ loading' = FALSE
           /\ localStorage' = saveSpaces(saveInventory(stored, inventory, FALSE), sp, FALSE)
    /\ call' = [op |-> "loadData"]
    /\ ret' = [kind |-> "void"]
    /\ UNCHANGED <<sampleWarehouseSpaces, searchView>>

\* the hook loads in a view that keeps no engine instance of its own
LoadData == loadData /\ UNCHANGED engineVars

\* the state change of an inventory operation and the save effect after it
setInventory(inventory) ==
    /\ items' = inventory
    /\ sharesSample' = [sharesSample EXCEPT !.inventory = FALSE]
    /\ localStorage' = saveInventory(localStorage, inventory, loading)
    /\ UNCHANGED <<spaces, loading, sampleWarehouseSpaces, engineVars, searchView>>

\* addInventoryItem(item), with the new id the add form makes
AddInventoryItem ==
    /\ Idle
    /\ ~loading
    /\ Len(items) < MaxItems
    /\ \E item \in ItemUniverse :
         /\ \A k \in 1..Len(items) : items[k].id # item.id
         /\ setInventory(Append(items, item))
         /\ call' = [op |-> "addInventoryItem", item |-> item]
    /\ ret' = [kind |-> "void"]

\* the edit form's result for an item: its quantity changed
Edited(item) == [item EXCEPT !.quantity = IF @ = 7 THEN 1 ELSE 7]

\* updateInventoryItem(updatedItem)
UpdateInventoryItem ==
    /\ Idle
    /\ ~loading
    /\ \E k \in 1..Len(items) :
         LET updatedItem == Edited(items[k])
         IN  /\ setInventory([i \in 1..Len(items) |->
                                 IF items[i].id = updatedItem.id THEN updatedItem ELSE items[i]])
             /\ call' = [op |-> "updateInventoryItem", updatedItem |-> updatedItem]
    /\ ret' = [kind |-> "void"]

\* deleteInventoryItem(itemId)
DeleteInventoryItem ==
    /\ Idle
    /\ ~loading
    /\ \E k \in 1..Len(items) :
         LET itemId == items[k].id
         IN  /\ setInventory(SelectSeq(items, LAMBDA item : item.id # itemId))
             /\ call' = [op |-> "deleteInventoryItem", itemId |-> itemId]
    /\ ret' = [kind |-> "void"]

\* resetToSampleData: both states are set to the module's sample arrays, the
\* storage keys are removed, and the save effect of a state that changed
\* runs afterwards
ResetToSampleData ==
    /\ Idle
    /\ ~loading
    /\ items' = SampleInventory
    /\ spaces' = sampleWarehouseSpaces
    /\ sharesSample' = [inventory |-> TRUE, spaces |-> TRUE]
    /\ localStorage' =
         LET afterInventory == IF sharesSample.inventory THEN EmptyStorage
                               ELSE saveInventory(EmptyStorage, SampleInventory, loading)
         IN  IF sharesSample.spaces THEN afterInventory
             ELSE saveSpaces(afterInventory, sampleWarehouseSpaces, loading)
    /\ call' = [op |-> "resetToSampleData"]
    /\ ret' = [kind |-> "void"]
    /\ UNCHANGED <<loading, sampleWarehouseSpaces, engineVars, searchView>>

\* SpaceOptimization.runOptimization with the greedy algorithm: the selected
\* items are allocated to the space units that have room; the units are
\* the objects of the warehouseSpaces state
RunOptimization ==
    /\ Idle
    /\ ~loading
    /\ \E selectedItems \in (SUBSET { items[k].id : k \in 1..Len(items) }) \ {{}} :
         LET itemsToOptimize == SelectSeq(items, LAMBDA item : item.id \in selectedItems)
             positions       == availablePositions(spaces, 1)
             availableSpaces == [k \in 1..Len(positions) |-> spaces[positions[k]]]
         IN  \E heap \in GreedyBestFit_sortCopy(itemsToOptimize) :
               LET r == allocateSpace(heap.sortedItems, availableSpaces)
                   updated == [k \in 1..Len(spaces) |->
                                  IF \E m \in 1..Len(positions) : positions[m] = k
                                  THEN r.spaces[CHOOSE m \in 1..Len(positions) : positions[m] = k]
                                  ELSE spaces[k]]
               IN  /\ spaces' = updated
                   /\ sampleWarehouseSpaces' =
                        IF sharesSample.spaces THEN updated ELSE sampleWarehouseSpaces
                   /\ call' = [op |-> "runOptimization", selectedItems |-> selectedItems]
                   /\ ret' = [kind |-> "allocation", allocations |-> r.allocations,
                              unallocated |-> r.unallocated]
    /\ UNCHANGED <<items, loading, localStorage, sharesSample, engineVars, searchView>>

\* the page is loaded again: every state starts anew, the module's sample
\* data is as written, local storage is what it was
Reload ==
    /\ Idle
    /\ ~loading
    /\ items' = <<>>
    /\ spaces' = <<>>
    /\ loading' = TRUE
    /\ sharesSample' = [inventory |-> FALSE, spaces |-> FALSE]
    /\ sampleWarehouseSpaces' = SampleSpaces
    /\ call' = [op |-> "reload"]
    /\ ret' = [kind |-> "void"]
    /\ UNCHANGED <<localStorage, engineVars, searchView>>

\* the first visit: nothing stored, the hook is mounted and about to load
InitHook ==
    /\ items = <<>>
    /\ spaces = <<>>
    /\ loading = TRUE
    /\ localStorage = EmptyStorage
    /\ sampleWarehouseSpaces = SampleSpaces
    /\ sharesSample = [inventory |-> FALSE, spaces |-> FALSE]
    /\ searchView = NewSearchView
    /\ hashMaps = NoHashMaps
    /\ locations = <<>>
    /\ graph = <<>>
    /\ msCounters = ZeroCounters
    /\ qsCounters = ZeroCounters
    /\ call = NoCall
    /\ ret = NoResult

\* the Inventory view: the inventory operations between loads
NextInventory ==
    \/ LoadData
    \/ AddInventoryItem
    \/ UpdateInventoryItem
    \/ DeleteInventoryItem
    \/ Reload
    \/ Return

SpecInventory == InitHook /\ [][NextInventory]_vars

\* the SpaceOptimization view and the reset
NextSpaces ==
    \/ LoadData
    \/ AddInventoryItem
    \/ RunOptimization
    \/ ResetToSampleData
    \/ Reload
    \/ Return

SpecSpaces == InitHook /\ [][NextSpaces]_vars

----------------------------------------------------------------------------
(* The Search view (components/Search) *)

\* A render of Search: "const hashMapSearch = new HashMapSearch()" makes the
\* instance the handlers of this render hold, with no index; hashMaps is
\* that instance's field.  The effect that builds the index has the
\* dependency [inventory] and runs only after a render in which the
\* inventory is another array than in the render before.
Search_render(view) ==
    /\ searchView' = view
    /\ hashMaps' = NoHashMaps
    /\ UNCHANGED <<items, spaces, loading, localStorage, sampleWarehouseSpaces, sharesSample,
                   locations, graph, msCounters, qsCounters>>

\* the hook loads: Search is rendered with the inventory, and the effect
\* builds the index on this render's instance
Search_load ==
    /\ loadData
    /\ hashMaps' = IF Len(items') > 0 THEN buildHashMap(NoHashMaps, items') ELSE NoHashMaps
    /\ UNCHANGED <<locations, graph, msCounters, qsCounters>>

\* onChange of the term input: setSearchTerm; the input is there once the
\* hook has loaded
Search_setSearchTerm ==
    /\ Idle
    /\ ~loading
    /\ \E term \in Terms \ {searchView.searchTerm} :
         /\ Search_render([searchView EXCEPT !.searchTerm = term])
         /\ call' = [op |-> "setSearchTerm", searchTerm |-> term]
    /\ ret' = [kind |-> "void"]

\* onChange of the field select: setSearchBy
Search_setSearchBy ==
    /\ Idle
    /\ ~loading
    /\ \E field \in StringFields \ {searchView.searchBy} :
         /\ Search_render([searchView EXCEPT !.searchBy = field])
         /\ call' = [op |-> "setSearchBy", searchBy |-> field]
    /\ ret' = [kind |-> "void"]

\* onChange of the algorithm select: setSearchAlgorithm
Search_setSearchAlgorithm ==
    /\ Idle
    /\ ~loading
    /\ \E algorithm \in {"hashMap", "binarySearch"} \ {searchView.searchAlgorithm} :
         /\ Search_render([searchView EXCEPT !.searchAlgorithm = algorithm])
         /\ call' = [op |-> "setSearchAlgorithm", searchAlgorithm |-> algorithm]
    /\ ret' = [kind |-> "void"]

\* Search.handleSearch, by the button or the Enter key: it uses the term,
\* field, algorithm, inventory and engine instances of the render it was
\* made in; its state changes (isSearching, searchResults, performance)
\* render the view again
Search_handleSearch ==
    /\ Idle
    /\ ~loading
    /\ LET searchTerm == searchView.searchTerm
           searchBy == searchView.searchBy
           searchAlgorithm == searchView.searchAlgorithm
       IN  /\ call' = [op |-> "handleSearch", searchTerm |-> searchTerm, searchBy |-> searchBy,
                       searchAlgorithm |-> searchAlgorithm, hashMapSearch |-> hashMaps]
           /\ ret' = IF searchTerm = <<>>
                     THEN [kind |-> "search", results |-> <<>>]
                     ELSE IF searchAlgorithm = "binarySearch"
                          THEN BinarySearch_search(items, searchTerm, searchBy)
                          ELSE HashMapSearch_search(hashMaps, searchTerm, searchBy)
    /\ Search_render(searchView)

\* Search is mounted on a visit with nothing stored or with an inventory
\* that an earlier visit saved
InitSearchView ==
    /\ items = <<>>
    /\ spaces = <<>>
    /\ loading = TRUE
    /\ localStorage \in
         { [EmptyStorage EXCEPT !.inventory = saved] :
             saved \in { <<>> } \cup { << stringifyInventory(q) >> : q \in ItemLists \ { <<>> } } }
    /\ sampleWarehouseSpaces = SampleSpaces
    /\ sharesSample = [inventory |-> FALSE, spaces |-> FALSE]
    /\ searchView = NewSearchView
    /\ hashMaps = NoHashMaps
    /\ locations = <<>>
    /\ graph = <<>>
    /\ msCounters = ZeroCounters
    /\ qsCounters = ZeroCounters
    /\ call = NoCall
    /\ ret = NoResult

NextSearchView ==
    \/ Search_load
    \/ Search_setSearchTerm
    \/ Search_setSearchBy
    \/ Search_setSearchAlgorithm
    \/ Search_handleSearch
    \/ Return

SpecSearchView == InitSearchView /\ [][NextSearchView]_vars

----------------------------------------------------------------------------
(* Properties of the sorters *)

\* the key a sort is specified by: lowercased string, raw number
NormKey(item, f) == IF f \in StringFields THEN toLowerCase(item[f]) ELSE item[f]

KeyLE(a, b, f) ==
    IF f \in StringFields THEN StrLE(NormKey(a, f), NormKey(b, f))
    ELSE NormKey(a, f) <= NormKey(b, f)

Count(x, q) == Cardinality({ i \in 1..Len(q) : q[i] = x })

IsPermutationOf(out, in) ==
    /\ Len(out) = Len(in)
    /\ \A x \in Range(in) \cup Range(out) : Count(x, out) = Count(x, in)

NonDecreasing(q, f) == \A i, j \in 1..Len(q) : i < j => KeyLE(q[i], q[j], f)

Pos(q, x) == CHOOSE k \in 1..Len(q) : q[k] = x

KeepsOrderOfEqualKeys(out, in, f) ==
    \A i, j \in 1..Len(in) :
        (i < j /\ NormKey(in[i], f) = NormKey(in[j], f))
            => Pos(out, in[i]) < Pos(out, in[j])

KeySeq(q, f) == [i \in 1..Len(q) |-> NormKey(q[i], f)]

\* C1: MergeSort.sort returns a permutation of its input that is
\* non-decreasing by the normalized key (strings lowercased, numbers raw),
\* and items with equal normalized keys keep their input order.
C1_MergeSortStable ==
    call.op = "MergeSort.sort" =>
        /\ IsPermutationOf(ret.sortedItems, call.items)
        /\ NonDecreasing(ret.sortedItems, call.sortBy)
        /\ KeepsOrderOfEqualKeys(ret.sortedItems, call.items, call.sortBy)

\* A merge sort by name that had to reorder three items, two of which have
\* names differing only in case.
C1_Witness ==
    /\ call.op = "MergeSort.sort"
    /\ call.sortBy = "name"
    /\ Len(call.items) = 3
    /\ ret.sortedItems # call.items
    /\ \E i, j \in 1..3 :
         /\ i < j
         /\ call.items[i].name # call.items[j].name
         /\ NormKey(call.items[i], "name") = NormKey(call.items[j], "name")

\* C2: QuickSort.sort returns a permutation of its input whose sequence of
\* normalized keys is, position by position, that of MergeSort.sort's
\* output on the same input.
C2_QuickSortSameKeys ==
    call.op = "QuickSort.sort" =>
        /\ IsPermutationOf(ret.sortedItems, call.items)
        /\ KeySeq(ret.sortedItems, call.sortBy)
             = KeySeq(mergeSort(call.items, call.sortBy, ZeroCounters).arr, call.sortBy)

\* A quicksort whose output has the keys of merge sort's output but orders
\* two equal-key items the other way round.
C2_Witness ==
    /\ call.op = "QuickSort.sort"
    /\ Len(call.items) = 3
    /\ ret.sortedItems # call.items
    /\ ret.sortedItems # mergeSort(call.items, call.sortBy, ZeroCounters).arr

----------------------------------------------------------------------------
(* Properties of the knapsack optimizer *)

RECURSIVE SumOver(_, _)
SumOver(q, f) == IF q = <<>> THEN 0 ELSE q[1][f] + SumOver(Tail(q), f)

RECURSIVE SumCeil(_)
SumCeil(q) == IF q = <<>> THEN 0 ELSE ceil(q[1].weight) + SumCeil(Tail(q))

\* the items of q at the positions in I, in order
RECURSIVE Pick(_, _, _)
Pick(q, I, k) ==
    IF k > Len(q) THEN <<>>
    ELSE IF k \in I THEN <<q[k]>> \o Pick(q, I, k + 1) ELSE Pick(q, I, k + 1)

\* brute force: the best total value of a subset whose rounded-up weights fit
BestSubsetValue(its, capacity) ==
    LET fits == { I \in SUBSET (1..Len(its)) : SumCeil(Pick(its, I, 1)) <= capacity }
        vals == { SumOver(Pick(its, I, 1), "value") : I \in fits }
    IN  CHOOSE v \in vals : \A u \in vals : u <= v

\* C3: optimizeValue's totalValue is the maximum total value over the subsets
\* of the items whose rounded-up weights sum to at most capacity, zero-weight
\* items included.
C3_KnapsackOptimal ==
    call.op = "optimizeValue" =>
        ret.totalValue = BestSubsetValue(call.items, call.capacity)

\* C4: totalWeight is the sum of the true (unrounded) weights of exactly the
\* items in selectedItems.
C4_TotalWeightOfSelected ==
    call.op = "optimizeValue" =>
        ret.totalWeight = SumOver(ret.selectedItems, "weight")

\* Two items of fractional weight were selected, so that the true weights
\* differ from the rounded ones the table is indexed by.
C4_Witness ==
    /\ call.op = "optimizeValue"
    /\ Len(ret.selectedItems) >= 2
    /\ \A i \in 1..Len(ret.selectedItems) :
         ret.selectedItems[i].weight # 10 * ceil(ret.selectedItems[i].weight)
    /\ ret.totalWeight = SumOver(ret.selectedItems, "weight")

----------------------------------------------------------------------------
(* Properties of the searches *)

HasPrefix(value, prefix) ==
    Len(prefix) <= Len(value) /\ SubSeq(value, 1, Len(prefix)) = prefix

\* the hash map has been built over the current collection
Built == DOMAIN hashMaps # {}

PrefixMatches(its, term, field) ==
    { x \in Range(its) : HasPrefix(toLowerCase(x[field]), toLowerCase(term)) }

ExactlyOnce(results, S) ==
    /\ Range(results) = S
    /\ Len(results) = Cardinality(S)

\* The original statement of C5: for every search term, of any length,
\* HashMapSearch.search returns exactly the items whose lowercased field
\* value has the lowercased term as a prefix, each once.
C5_AnyTerm ==
    (call.op = "HashMapSearch.search" /\ Built) =>
        ExactlyOnce(ret.results, PrefixMatches(items, call.searchTerm, call.searchBy))

\* C5: after buildHashMap(items), for every indexed field and every
\* non-empty search term of any case, HashMapSearch.search returns exactly
\* the items whose lowercased field value has the lowercased term as a
\* literal prefix, each once; for the empty term it returns nothing.
C5_PrefixSearch ==
    (call.op = "HashMapSearch.search" /\ Built) =>
        IF call.searchTerm # <<>>
        THEN ExactlyOnce(ret.results, PrefixMatches(items, call.searchTerm, call.searchBy))
        ELSE ret.results = <<>>

\* An upper-case term found two items through their lowercased names while
\* a third item, which has the term only inside its name, was left out.
C5_Witness ==
    /\ call.op = "HashMapSearch.search"
    /\ Built
    /\ call.searchBy = "name"
    /\ call.searchTerm # toLowerCase(call.searchTerm)
    /\ Len(ret.results) = 2
    /\ \E x \in Range(items) :
         /\ includes(toLowerCase(x.name), toLowerCase(call.searchTerm))
         /\ x \notin Range(ret.results)

----------------------------------------------------------------------------
(* Properties of the space allocator *)

SpaceUnitsConsistent(sp) ==
    \A i \in 1..Len(sp) :
        /\ sp[i].occupied + sp[i].available = sp[i].capacity
        /\ sp[i].available >= 0

\* C6: space units that start with occupied + available = capacity and
\* available >= 0 still satisfy both after every individual allocation and
\* after any sequence of allocateSpace calls.
C6_SpaceUnitsStayConsistent ==
    /\ SpaceUnitsConsistent(spaces)
    /\ call.op = "allocateSpace" =>
         \A k \in 1..Len(ret.history) : SpaceUnitsConsistent(ret.history[k])

\* A second allocateSpace call on space units an earlier call had already
\* written to: it placed two items, one of which filled its space, and
\* left one item unallocated.
C6_Witness ==
    /\ call.op = "allocateSpace"
    /\ \E i \in 1..Len(call.availableSpaces) : call.availableSpaces[i].itemId # NoItemId
    /\ Len(ret.allocations) >= 2
    /\ Len(ret.unallocated) >= 1
    /\ \E i \in 1..Len(spaces) :
         spaces[i].available = 0 /\ call.availableSpaces[i].available > 0

----------------------------------------------------------------------------
(* Properties of the route planner *)

\* all-pairs shortest distances of matrix g using intermediate nodes 1..k
RECURSIVE FloydWarshall(_, _)
FloydWarshall(g, k) ==
    IF k = 0 THEN g
    ELSE LET d == FloydWarshall(g, k - 1)
         IN  [i \in 1..Len(g) |->
                [j \in 1..Len(g) |-> Min(d[i][j], d[i][k] + d[k][j])]]

\* C7: the distance the single-pair dijkstra primitive returns for nodes
\* (s, e) is the all-pairs shortest-path distance between s and e that
\* Floyd-Warshall computes on the same matrix.
C7_DijkstraMatchesAllPairs ==
    call.op = "dijkstra" =>
        ret.distance = FloydWarshall(graph, Len(graph))[call.start + 1][call.end + 1]

\* The primitive was asked for two different nodes of a three-node graph
\* and settled a third node before it reached the destination.
C7_Witness ==
    /\ call.op = "dijkstra"
    /\ Len(graph) = 3
    /\ call.start # call.end
    /\ Len(ret.visitedNodes) = 3
    /\ ret.distance > 0
    /\ ret.distance = graph[call.start + 1][call.end + 1]

Known(location) == \E k \in 1..Len(locations) : locations[k] = location

SomeUnknown(c) ==
    \/ ~Known(c.startLocation)
    \/ \E k \in 1..Len(c.destinationLocations) : ~Known(c.destinationLocations[k])

\* C8: findOptimalPickingPath fails with the invalid-location error exactly
\* when the start or some destination is not structurally equal to a
\* location of the current graph (in particular when no graph has been
\* initialized); it then produces no path and leaves the graph and the
\* location index as they were.
C8_UnknownLocationError ==
    [][ (call'.op = "findOptimalPickingPath" /\ call.op = "none") =>
          IF SomeUnknown(call')
          THEN /\ ret' = [kind |-> "error", message |-> "Invalid location specified"]
               /\ graph' = graph
               /\ locations' = locations
          ELSE ret'.kind = "path" ]_vars

\* A query on a graph of at least two locations whose start is known and
\* whose second destination is not: it ended in the error.
C8_Witness ==
    /\ call.op = "findOptimalPickingPath"
    /\ Len(locations) >= 2
    /\ Known(call.startLocation)
    /\ Len(call.destinationLocations) = 2
    /\ Known(call.destinationLocations[1])
    /\ ~Known(call.destinationLocations[2])
    /\ ret.kind = "error"

\* C10: with an empty destination list findOptimalPickingPath raises no
\* error and returns the path of the start only with total distance 0, also
\* on a graph that was initialized from an empty location set.
C10_EmptyRouteInputs ==
    ( /\ call.op = "findOptimalPickingPath"
      /\ call.destinationLocations = <<>>
      /\ (Known(call.startLocation) \/ locations = <<>>) ) =>
        /\ ret.kind = "path"
        /\ ret.totalDistance = 0
        /\ Len(ret.path) <= 1

----------------------------------------------------------------------------
(* Empty item collections *)

\* C9: on an empty item collection every item engine returns empty or zero
\* results and raises nothing: both sorts return the empty list with 0
\* comparisons and 0 swaps, both searches return no results, allocateSpace
\* returns no allocations, no unallocated items and changes no space, and
\* optimizeValue selects nothing with totalValue 0 and totalWeight 0.
C9_EmptyCollection ==
    items = <<>> =>
        /\ ret.kind # "error"
        /\ call.op \in {"MergeSort.sort", "QuickSort.sort"} =>
             /\ ret.sortedItems = <<>>
             /\ ret.comparisons = 0
             /\ ret.swaps = 0
        /\ call.op = "BinarySearch.search" => ret.results = <<>>
        /\ (call.op = "HashMapSearch.search" /\ Built) => ret.results = <<>>
        /\ call.op = "allocateSpace" =>
             /\ ret.allocations = <<>>
             /\ ret.unallocated = <<>>
             /\ spaces = call.availableSpaces
        /\ call.op = "optimizeValue" =>
             /\ ret.selectedItems = <<>>
             /\ ret.totalValue = 0
             /\ ret.totalWeight = 0

\* A sorter that had been used before sorted the empty collection, next to
\* space units with room left.
C9_Witness ==
    /\ items = <<>>
    /\ call.op = "MergeSort.sort"
    /\ ret.sortedItems = <<>>
    /\ msCounters = ZeroCounters
    /\ qsCounters = UsedCounters
    /\ \E i \in 1..Len(spaces) : spaces[i].available > 0

----------------------------------------------------------------------------
(* The distance matrix *)

\* C11: after initializeWarehouseGraph on a list that may repeat locations,
\* the stored location index holds each distinct location of the list
\* exactly once and the matrix has one row and one column per distinct
\* location.
C11_InitDeduplicates ==
    call.op = "initializeWarehouseGraph" =>
        /\ Range(locations) = Range(call.locations)
        /\ \A i, j \in 1..Len(locations) : locations[i] = locations[j] => i = j
        /\ Len(graph) = Cardinality(Range(call.locations))
        /\ \A i \in 1..Len(graph) : Len(graph[i]) = Cardinality(Range(call.locations))

\* the letters A..Z in alphabetic order
Alphabet == [k \in 1..26 |-> 64 + k]

\* 1-based alphabetic position of an aisle letter
AislePosition(aisle) == CHOOSE k \in 1..26 : Alphabet[k] = aisle[1]

\* the documented metric
Metric(l1, l2) ==
    10 * Abs(AislePosition(l1.aisle) - AislePosition(l2.aisle))
      + 5 * Abs(l1.shelf - l2.shelf)
      + 2 * Abs(l1.position - l2.position)

\* C12: once a graph is initialized, for all node indices i and j:
\* graph[i][i] = 0, graph[i][j] = graph[j][i] >= 0, graph[i][j] is
\* 10 * |aisle difference| + 5 * |shelf difference| + 2 * |position
\* difference| with aisles numbered A = 1, B = 2, ..., and no entry is
\* infinite.
C12_MatrixIsTheMetric ==
    /\ Len(graph) = Len(locations)
    /\ \A i \in 1..Len(graph) :
         /\ Len(graph[i]) = Len(locations)
         /\ graph[i][i] = 0
         /\ \A j \in 1..Len(graph) :
              /\ graph[i][j] = graph[j][i]
              /\ graph[i][j] >= 0
              /\ graph[i][j] # Infinity
              /\ graph[i][j] = Metric(locations[i], locations[j])

\* A graph of three locations was just built whose last location differs
\* from the first in aisle, shelf and position (A-1-2 and B-2-1: 17).
C12_Witness ==
    /\ call.op = "initializeWarehouseGraph"
    /\ Len(graph) = 3
    /\ graph[3][1] = 17
    /\ graph[2][1] > 0

----------------------------------------------------------------------------
(* The picking route *)

\* the node a location resolves to: its first occurrence in the location
\* index, counted from 0
NodeOf(location) ==
    (CHOOSE k \in 1..Len(locations) :
        /\ locations[k] = location
        /\ \A m \in 1..(k - 1) : locations[m] # location) - 1

\* shortest-path distance between two nodes of the current graph
ShortestDistance(a, b) == FloydWarshall(graph, Len(graph))[a + 1][b + 1]

\* position of the first destination of the list that resolves to node n
FirstListed(dests, n) ==
    CHOOSE k \in 1..Len(dests) :
        /\ NodeOf(dests[k]) = n
        /\ \A m \in 1..(k - 1) : NodeOf(dests[m]) # n

\* the stop path[k] is a destination not on the route before it, no other
\* such destination is nearer to path[k - 1], and none that is as near is
\* listed earlier
NearestFirstListed(path, dests, k) ==
    LET open == { NodeOf(dests[m]) : m \in 1..Len(dests) } \ { path[m] : m \in 1..(k - 1) }
    IN  /\ path[k] \in open
        /\ \A n \in open :
             \/ ShortestDistance(path[k - 1], path[k]) < ShortestDistance(path[k - 1], n)
             \/ /\ ShortestDistance(path[k - 1], path[k]) = ShortestDistance(path[k - 1], n)
                /\ FirstListed(dests, path[k]) <= FirstListed(dests, n)

\* C13: in a route findOptimalPickingPath returns, every stop after the start
\* is the not-yet-visited destination with the smallest shortest-path
\* distance from the stop before it, the one listed first in the caller's
\* destination list among equally near ones; for start A-1-1 and
\* destinations A-1-2 and B-2-1, in either order, A-1-2 comes before B-2-1.
C13_NearestDestinationNext ==
    (call.op = "findOptimalPickingPath" /\ ret.kind = "path") =>
        /\ ret.path[1] = NodeOf(call.startLocation)
        /\ \A k \in 2..Len(ret.path) :
             NearestFirstListed(ret.path, call.destinationLocations, k)
        /\ ( /\ call.startLocation = Loc(65, 1, 1)
             /\ Range(call.destinationLocations) = { Loc(65, 1, 2), Loc(66, 2, 1) } ) =>
               ret.path = << NodeOf(Loc(65, 1, 1)), NodeOf(Loc(65, 1, 2)), NodeOf(Loc(66, 2, 1)) >>

\* A route from A-1-2 to A-1-3 and A-1-1, which are equally near: it went to
\* A-1-3, listed first, and then to A-1-1.
C13_Witness ==
    /\ call.op = "findOptimalPickingPath"
    /\ ret.kind = "path"
    /\ call.startLocation = Loc(65, 1, 2)
    /\ call.destinationLocations = << Loc(65, 1, 3), Loc(65, 1, 1) >>
    /\ ret.path = << NodeOf(Loc(65, 1, 2)), NodeOf(Loc(65, 1, 3)), NodeOf(Loc(65, 1, 1)) >>
    /\ ret.totalDistance = 6

----------------------------------------------------------------------------
(* The linear search *)

\* term occurs in value when letter case is ignored: value splits into a
\* part before, a part that is the term up to case, and a part after
ContainsIgnoringCase(value, term) ==
    \E from \in 1..(Len(value) + 1) :
        /\ from + Len(term) - 1 <= Len(value)
        /\ \A k \in 1..Len(term) : Lower(value[from + k - 1]) = Lower(term[k])

----------------------------------------------------------------------------
(* What the engines leave alone *)

\* the ids of the space units, in array order
SpaceIds(sp) == [k \in 1..Len(sp) |-> sp[k].id]

\* C15: no engine call changes the caller's item collection: after
\* MergeSort.sort, QuickSort.sort, BinarySearch.search, buildHashMap,
\* HashMapSearch.search, allocateSpace and optimizeValue the item array
\* holds the same items, with the same field values, in the same order;
\* allocateSpace also leaves the order and the membership of the caller's
\* space-unit array as they were.
C15_ItemsNotMutated ==
    [][ /\ items' = items
        /\ SpaceIds(spaces') = SpaceIds(spaces) ]_vars

\* QuickSort.sort returned three items in another order than the caller's
\* array, which still holds them in the order it had.
C15_Witness ==
    /\ call.op = "QuickSort.sort"
    /\ Len(items) = 3
    /\ items = call.items
    /\ ret.sortedItems # items
    /\ Range(ret.sortedItems) = Range(items)

----------------------------------------------------------------------------
(* Re-initialization *)

\* the length of the route through the nodes of path, by the documented metric
RECURSIVE RouteLength(_)
RouteLength(path) ==
    IF Len(path) <= 1 THEN 0
    ELSE Metric(locations[path[1] + 1], locations[path[2] + 1]) + RouteLength(Tail(path))

\* C16: an initialization replaces whatever graph there was: right after
\* initializeWarehouseGraph(L2) the location index is L2 and the matrix has
\* the dimension and the distances of L2, whatever list L1 was there before;
\* and every route query is resolved against the current index only: it is
\* rejected when it names a location that is not in the index, and
\* otherwise its nodes are indices into the index and its distance is
\* measured between the locations of the index.
C16_ReinitializationReplaces ==
    /\ call.op = "initializeWarehouseGraph" =>
         /\ locations = call.locations
         /\ Len(graph) = Len(call.locations)
         /\ \A i, j \in 1..Len(graph) :
              graph[i][j] = Metric(call.locations[i], call.locations[j])
    /\ call.op = "findOptimalPickingPath" =>
         IF SomeUnknown(call)
         THEN ret.kind = "error"
         ELSE /\ ret.kind = "path"
              /\ \A k \in 1..Len(ret.path) : ret.path[k] \in 0..(Len(locations) - 1)
              /\ { locations[ret.path[k] + 1] : k \in 1..Len(ret.path) } =
                   {call.startLocation} \cup Range(call.destinationLocations)
              /\ ret.totalDistance = RouteLength(ret.path)

\* The planner held A-1-1 and B-2-1 and was initialized again with A-1-2
\* and A-1-3: the index is the new list and the matrix is 2 x 2 with the
\* distance 2.
C16_Witness ==
    /\ call.op = "initializeWarehouseGraph"
    /\ call.replaced = << Loc(65, 1, 1), Loc(66, 2, 1) >>
    /\ call.locations = << Loc(65, 1, 2), Loc(65, 1, 3) >>
    /\ locations = call.locations
    /\ graph = << <<0, 2>>, <<2, 0>> >>

----------------------------------------------------------------------------
(* Persistence *)

\* C17: once loading has finished, after any sequence of addInventoryItem,
\* updateInventoryItem and deleteInventoryItem, also one that deletes every
\* item, local storage holds an inventory and it is the in-memory
\* inventory, so that a reload restores the inventory the user last saw.
C17_StoredInventoryIsCurrent ==
    ~loading =>
        /\ localStorage.inventory # <<>>
        /\ parseInventory(localStorage.inventory[1]) = items

\* C18: after resetToSampleData the inventory and the warehouse spaces the
\* application holds have the values of the sample data as written,
\* whatever was done before, greedy allocations on spaces that came from the
\* sample data included.
C18_ResetRestoresSample ==
    call.op = "resetToSampleData" =>
        /\ items = SampleInventory
        /\ spaces = SampleSpaces

----------------------------------------------------------------------------
(* Greedy allocation *)

\* the allocation record of an item, if it was allocated
AllocationOf(item) == { m \in 1..Len(ret.allocations) : ret.allocations[m].item = item }

\* how many of the items processed before the i-th were allocated
AllocatedBefore(i) ==
    Cardinality({ j \in 1..(i - 1) : AllocationOf(call.sortedItems[j]) # {} })

\* the space units as they were when the i-th item of the processing order
\* was looked at
SpacesAt(i) ==
    IF AllocatedBefore(i) = 0 THEN call.availableSpaces
    ELSE ret.history[AllocatedBefore(i)]

\* the candidate units at that moment that can hold the item
Fits(sp, item) ==
    { p \in 1..Len(sp) : sp[p].available > 0 /\ sp[p].available >= item.quantity }

\* C19: every allocated item is in a candidate space whose available
\* capacity at that moment is at least the item's quantity and whose
\* leftover is the least over the candidate spaces that can hold the item,
\* the earliest of them on equal leftover; an item is unallocated only if no
\* candidate space can hold it at that moment; a space whose available
\* capacity has reached zero is not selected again in the call.
C19_BestFit ==
    call.op = "allocateSpace" =>
        /\ \A i \in 1..Len(call.sortedItems) :
             LET item == call.sortedItems[i]
                 sp   == SpacesAt(i)
                 fits == Fits(sp, item)
             IN  IF AllocationOf(item) # {}
                 THEN \A m \in AllocationOf(item) :
                        LET chosen == ret.allocations[m].allocatedSpace
                        IN  /\ chosen \in fits
                            /\ \A q \in fits :
                                 \/ sp[chosen].available < sp[q].available
                                 \/ sp[chosen].available = sp[q].available /\ chosen <= q
                 ELSE fits = {}
        /\ \A k, m \in 1..Len(ret.allocations) :
             k < m => ret.history[k][ret.allocations[m].allocatedSpace].available # 0

\* An allocation of three items to two units: one item went to the second
\* unit although the first could hold it too, a unit was filled up, and an
\* item that no unit could hold was left unallocated.
C19_Witness ==
    /\ call.op = "allocateSpace"
    /\ Len(call.sortedItems) = 3
    /\ Len(ret.unallocated) = 1
    /\ \E i \in 1..Len(call.sortedItems) :
         /\ \E m \in AllocationOf(call.sortedItems[i]) : ret.allocations[m].allocatedSpace = 2
         /\ 1 \in Fits(SpacesAt(i), call.sortedItems[i])
    /\ \E p \in 1..Len(spaces) :
         spaces[p].available = 0 /\ call.availableSpaces[p].available > 0

\* value / weight is a number (possibly infinite) unless both are zero
HasDensity(x) == x.weight # 0 \/ x.value # 0

\* the density of a is greater than that of b
Denser(a, b) ==
    IF a.weight = 0 THEN b.weight # 0
    ELSE b.weight # 0 /\ a.value * b.weight > b.value * a.weight

\* a comes before b in the ranking: denser, or as dense and earlier in the input
RankedBefore(a, b, input) ==
    \/ Denser(a, b)
    \/ ~Denser(b, a) /\ Pos(input, a) < Pos(input, b)

\* q is in ranked order, items without a density wherever they are
InRankedOrder(q, input) ==
    \A i, j \in 1..Len(q) :
        (i < j /\ HasDensity(q[i]) /\ HasDensity(q[j])) => RankedBefore(q[i], q[j], input)

\* q holds elements of order, each once, in the order they have there
IsSubsequenceOf(q, order) ==
    /\ \A i \in 1..Len(q) : Count(q[i], order) = 1
    /\ \A i, j \in 1..Len(q) : i < j => Pos(order, q[i]) < Pos(order, q[j])

AllocatedItems == [m \in 1..Len(ret.allocations) |-> ret.allocations[m].item]

\* C20: allocateSpace processes the items in descending order of value /
\* weight, items of equal density in input order; allocations and
\* unallocated are subsequences of that order, and every input item is in
\* exactly one of the two lists, once.
C20_DensityOrder ==
    call.op = "allocateSpace" =>
        /\ IsPermutationOf(call.sortedItems, call.items)
        /\ InRankedOrder(call.sortedItems, call.items)
        /\ IsSubsequenceOf(AllocatedItems, call.sortedItems)
        /\ IsSubsequenceOf(ret.unallocated, call.sortedItems)
        /\ InRankedOrder(AllocatedItems, call.items)
        /\ InRankedOrder(ret.unallocated, call.items)
        /\ \A x \in Range(call.items) :
             Count(x, AllocatedItems) + Count(x, ret.unallocated) = 1

----------------------------------------------------------------------------
(* The knapsack selection *)

\* C21: the selectedItems of optimizeValue are a subsequence of the input
\* in its order, no item twice; their rounded-up weights sum to at most
\* capacity; their values sum to the returned totalValue.
C21_SelectionIsConsistent ==
    call.op = "optimizeValue" =>
        /\ IsSubsequenceOf(ret.selectedItems, call.items)
        /\ SumCeil(ret.selectedItems) <= call.capacity
        /\ SumOver(ret.selectedItems, "value") = ret.totalValue

\* A selection of two items out of three that leaves out the one between
\* them, one of the two of weight zero.
C21_Witness ==
    /\ call.op = "optimizeValue"
    /\ Len(call.items) = 3
    /\ ret.selectedItems = << call.items[1], call.items[3] >>
    /\ \E i \in 1..2 : ret.selectedItems[i].weight = 0

----------------------------------------------------------------------------
(* The tallies of the sorters *)

\* the pairs of positions of q that are out of order by the normalized key
Inversions(q, f) ==
    { p \in (1..Len(q)) \X (1..Len(q)) : p[1] < p[2] /\ ~KeyLE(q[p[1]], q[p[2]], f) }

\* The merges of a merge sort of q, told by what they merge rather than by
\* their steps: merging the sorted halves L and R takes an element of R
\* ahead of remaining elements of L once for every element of R that some
\* element of L exceeds, and takes an element of L while elements of R
\* remain once for every element of L that some element of R does not
\* precede.
RECURSIVE MergeTally(_, _)
MergeTally(q, f) ==
    IF Len(q) <= 1 THEN [fromRight |-> 0, fromLeft |-> 0]
    ELSE LET mid == Len(q) \div 2
             lo  == SubSeq(q, 1, mid)
             hi  == SubSeq(q, mid + 1, Len(q))
             L   == mergeSort(lo, f, ZeroCounters).arr
             R   == mergeSort(hi, f, ZeroCounters).arr
             tl  == MergeTally(lo, f)
             tr  == MergeTally(hi, f)
         IN  [fromRight |-> tl.fromRight + tr.fromRight
                  + Cardinality({ j \in 1..Len(R) : \E i \in 1..Len(L) : ~KeyLE(L[i], R[j], f) }),
              fromLeft |-> tl.fromLeft + tr.fromLeft
                  + Cardinality({ i \in 1..Len(L) : \E j \in 1..Len(R) : KeyLE(L[i], R[j], f) })]

\* C22: merge sort's swaps is the number of merge steps that take an
\* element from the right sequence while left elements remain; it is 0
\* exactly when the input is non-decreasing by the normalized key and it
\* never exceeds the number of inversions of the input; comparisons is the
\* number of merge decisions made.
C22_MergeSortTallies ==
    call.op = "MergeSort.sort" =>
        LET t == MergeTally(call.items, call.sortBy)
        IN  /\ ret.swaps = t.fromRight
            /\ ret.comparisons = t.fromRight + t.fromLeft
            /\ (ret.swaps = 0) <=> NonDecreasing(call.items, call.sortBy)
            /\ ret.swaps <= Cardinality(Inversions(call.items, call.sortBy))

\* A merge sort of four items in which one step resolved two inversions at
\* once, so that swaps is positive and below the number of inversions.
C22_Witness ==
    /\ call.op = "MergeSort.sort"
    /\ Len(call.items) = 4
    /\ ret.swaps > 0
    /\ ret.swaps < Cardinality(Inversions(call.items, call.sortBy))

\* the sum of the numbers of a sequence
RECURSIVE Sum(_)
Sum(q) == IF q = <<>> THEN 0 ELSE q[1] + Sum(Tail(q))

\* every partition of the call counted one comparison per scanned element
\* of its range, and the call reports their sum
OneComparisonPerScanned ==
    /\ \A k \in 1..Len(ret.partitions) :
         ret.partitions[k].comparisons = ret.partitions[k].high - ret.partitions[k].low
    /\ ret.comparisons = Sum([k \in 1..Len(ret.partitions) |->
                                 ret.partitions[k].high - ret.partitions[k].low])

\* the exchanges of the call that exchange two different positions
ProperExchanges == { k \in 1..Len(ret.exchanges) : ret.exchanges[k][1] # ret.exchanges[k][2] }

\* C23 as stated: a partition of low..high counts high - low comparisons
\* and one swap for every exchange it performs, the pivot placement
\* included, so that swaps is the number of exchanges of all partitions.
C23_SwapsCountEveryExchange ==
    call.op = "QuickSort.sort" =>
        /\ OneComparisonPerScanned
        /\ ret.swaps = Len(ret.exchanges)

\* C23, amended: a partition of low..high counts high - low comparisons and
\* one swap for every exchange of two different positions, the pivot
\* placement included when the pivot moves; an exchange of a position
\* with itself is performed and not counted.
C23_SwapsCountProperExchanges ==
    call.op = "QuickSort.sort" =>
        /\ OneComparisonPerScanned
        /\ ret.swaps = Cardinality(ProperExchanges)

\* A quicksort of four items with several partitions, in which elements
\* changed places, a pivot was moved into its place and another pivot was
\* in its place already.
C23_Witness ==
    /\ call.op = "QuickSort.sort"
    /\ Len(call.items) = 4
    /\ Len(ret.partitions) >= 2
    /\ ret.swaps >= 2
    /\ \E k \in 1..Len(ret.partitions) :
         \E e \in ProperExchanges : ret.exchanges[e][2] = ret.partitions[k].high
    /\ \E k \in 1..Len(ret.partitions) :
         \E e \in 1..Len(ret.exchanges) :
            ret.exchanges[e] = << ret.partitions[k].high, ret.partitions[k].high >>

\* C24: the report and output of a sort are those of a new instance on the
\* same input and field, whatever calls the instance served before
\* (call.tallies is what they left behind).
C24_TalliesBelongToTheCall ==
    /\ call.op = "MergeSort.sort" =>
          LET fresh == mergeSort(call.items, call.sortBy, ZeroCounters)
          IN  /\ ret.sortedItems = fresh.arr
              /\ ret.comparisons = fresh.cnt.comparisons
              /\ ret.swaps = fresh.cnt.swaps
              /\ ret.dataSize = Len(call.items)
    /\ call.op = "QuickSort.sort" =>
          LET fresh == quickSort(call.items, 0, Len(call.items) - 1, call.sortBy,
                                 ZeroCounters @@ NoTrace)
          IN  /\ ret.sortedItems = fresh.arr
              /\ ret.comparisons = fresh.cnt.comparisons
              /\ ret.swaps = fresh.cnt.swaps
              /\ ret.dataSize = Len(call.items)

\* A sort of three or more items on an instance whose earlier sort had
\* left more swaps than this call reports.
C24_Witness ==
    /\ call.op \in {"MergeSort.sort", "QuickSort.sort"}
    /\ Len(call.items) >= 3
    /\ call.tallies.swaps > ret.swaps
    /\ call.tallies.comparisons > 0
    /\ ret.comparisons > 0

----------------------------------------------------------------------------
(* The picking route *)

\* C25: over an initialized graph that contains the start and every
\* destination, findOptimalPickingPath returns (its loop body is entered
\* at most once per destination and once more), also when the list repeats
\* a location or contains the start, and the node of every destination is
\* in the returned path.
C25_PickingPathTerminates ==
    (call.op = "findOptimalPickingPath" /\ ~SomeUnknown(call)) =>
        /\ ret.kind = "path"
        /\ ret.iterations <= Len(call.destinationLocations) + 1
        /\ \A k \in 1..Len(call.destinationLocations) :
             \E m \in 1..Len(ret.path) : ret.path[m] = NodeOf(call.destinationLocations[k])

\* A route for a list that names the start and one other location: the
\* loop went to the other location and then found nothing left to visit.
C25_Witness ==
    /\ call.op = "findOptimalPickingPath"
    /\ ret.kind = "path"
    /\ Len(call.destinationLocations) = 2
    /\ \E k \in 1..2 : call.destinationLocations[k] = call.startLocation
    /\ Len(ret.path) = 2
    /\ ret.iterations = 2

----------------------------------------------------------------------------
(* The two searches side by side *)

\* the term occurs in the field values of the collection, and nowhere at
\* the beginning of one
OnlyInside(its, term, field) ==
    /\ \E x \in Range(its) : ContainsIgnoringCase(x[field], term)
    /\ PrefixMatches(its, term, field) = {}

\* C26: for the same collection, every indexed field and every non-empty
\* term, the items HashMapSearch.search returns are among those
\* BinarySearch.search returns; a term that occurs in the field values
\* only inside them, never at their beginning, gets no hash result while
\* the linear scan returns the items that contain it.
C26_HashResultsAmongScanResults ==
    (call.op = "HashMapSearch.search" /\ Built /\ call.searchTerm # <<>>) =>
        LET scanned == BinarySearch_search(items, call.searchTerm, call.searchBy).results
        IN  /\ Range(ret.results) \subseteq Range(scanned)
            /\ OnlyInside(items, call.searchTerm, call.searchBy) =>
                  /\ ret.results = <<>>
                  /\ scanned # <<>>
                  /\ \A x \in Range(items) :
                       ContainsIgnoringCase(x[call.searchBy], call.searchTerm)
                           => x \in Range(scanned)

\* A hash search by name for "B" in a collection whose only name with a
\* "b" is "Ab": no result, where the linear scan finds the item.
C26_Witness ==
    /\ call.op = "HashMapSearch.search"
    /\ Built
    /\ Len(items) >= 2
    /\ call.searchBy = "name"
    /\ call.searchTerm = <<66>>
    /\ OnlyInside(items, call.searchTerm, call.searchBy)
    /\ ret.results = <<>>
    /\ Len(BinarySearch_search(items, call.searchTerm, call.searchBy).results) = 1

----------------------------------------------------------------------------
(* What the greedy pass leaves out *)

\* the quantities of the items that the assignment f puts into unit p
RECURSIVE Load(_, _, _, _)
Load(its, f, p, k) ==
    IF k > Len(its) THEN 0
    ELSE (IF f[k] = p THEN its[k].quantity ELSE 0) + Load(its, f, p, k + 1)

\* the assignments of the items to units with room that keep within every
\* unit's available capacity
CompleteAssignments(its, sp) ==
    { f \in [1..Len(its) -> { p \in 1..Len(sp) : sp[p].available > 0 }] :
        \A p \in 1..Len(sp) : Load(its, f, p, 1) <= sp[p].available }

\* the processing orders of the items in which the pass places every item
OrdersThatPlaceAll(its, sp) ==
    { q \in Orderings(its) : allocateSpace(q, sp).unallocated = <<>> }

\* the call left an item out although an assignment of all items exists
\* and the pass itself, taking the items in another order, places them all
Starved ==
    /\ call.op = "allocateSpace"
    /\ ret.unallocated # <<>>
    /\ CompleteAssignments(call.items, call.availableSpaces) # {}
    /\ OrdersThatPlaceAll(call.items, call.availableSpaces) # {}

\* C27: the greedy pass does not place every item whenever some assignment
\* places them all: there are inputs on which it leaves an item out that
\* another processing order would place (C27_Witness is one).  What does
\* hold is that an item is left out in spite of such an assignment only
\* behind an item that was served before it.
C27_LeftOutOnlyBehindServedItems ==
    call.op = "allocateSpace" =>
        \A i \in 1..Len(call.sortedItems) :
            ( /\ AllocationOf(call.sortedItems[i]) = {}
              /\ CompleteAssignments(call.items, call.availableSpaces) # {} )
                => \E j \in 1..(i - 1) : AllocationOf(call.sortedItems[j]) # {}

\* I2, I3 and the bulky I6 for units with 3 and 2 free: I2, the densest,
\* went to the unit with 2 free, I3 to the other, and I6 was left out,
\* although I2 and I3 fit the first unit and I6 the second, and the pass
\* places all three when it takes them in another order.
C27_Witness ==
    /\ Starved
    /\ Len(call.items) = 3
    /\ \A x \in Range(call.items) : x.quantity > 0 /\ x.weight > 0
    /\ Len(ret.allocations) = 2
    /\ ret.unallocated = << call.sortedItems[3] >>
    /\ \A k \in 1..2 : Denser(call.sortedItems[k], call.sortedItems[3])

----------------------------------------------------------------------------
(* The Search view's hash search *)

\* C28: a Hash Map search started by handleSearch once the inventory is
\* loaded, after whatever renders typing the term and choosing the field
\* and algorithm caused, is answered by a HashMapSearch instance whose
\* index was built over the current inventory, so that every item whose
\* selected field begins with the term is returned.
C28_HashSearchOverCurrentInventory ==
    (call.op = "handleSearch" /\ call.searchAlgorithm = "hashMap" /\ call.searchTerm # <<>>) =>
        /\ Len(items) > 0 => call.hashMapSearch = buildHashMap(NoHashMaps, items)
        /\ PrefixMatches(items, call.searchTerm, call.searchBy) \subseteq Range(ret.results)

----------------------------------------------------------------------------
(* Routes over the complete graph *)

\* the sum of the matrix entries between consecutive nodes of a path
RECURSIVE MatrixLength(_)
MatrixLength(path) ==
    IF Len(path) <= 1 THEN 0
    ELSE graph[path[1] + 1][path[2] + 1] + MatrixLength(Tail(path))

\* C29: the single-pair primitive returns the path of its two nodes (of
\* the one node when they coincide) with the matrix entry as distance; the
\* path of findOptimalPickingPath is the start followed by every distinct
\* destination other than the start, each once, and totalDistance is the
\* sum of the matrix distances between consecutive nodes of the path.
C29_DirectLegs ==
    /\ call.op = "dijkstra" =>
          /\ ret.path = IF call.start = call.end THEN << call.start >>
                        ELSE << call.start, call.end >>
          /\ ret.distance = graph[call.start + 1][call.end + 1]
    /\ (call.op = "findOptimalPickingPath" /\ ret.kind = "path") =>
          LET dests == { NodeOf(call.destinationLocations[k]) :
                           k \in 1..Len(call.destinationLocations) }
          IN  /\ ret.path[1] = NodeOf(call.startLocation)
              /\ { ret.path[k] : k \in 2..Len(ret.path) } = dests \ { NodeOf(call.startLocation) }
              /\ \A i, j \in 1..Len(ret.path) : ret.path[i] = ret.path[j] => i = j
              /\ ret.totalDistance = MatrixLength(ret.path)

\* A route from A-1-1 to A-1-3, named twice, over A-1-1, A-1-2, A-1-3,
\* where the way by A-1-2 is as long as the direct way: the path has the
\* two nodes, A-1-3 once, and the length of the matrix entry, 4.
C29_Witness ==
    /\ call.op = "findOptimalPickingPath"
    /\ ret.kind = "path"
    /\ locations = << Loc(65, 1, 1), Loc(65, 1, 2), Loc(65, 1, 3) >>
    /\ call.startLocation = Loc(65, 1, 1)
    /\ call.destinationLocations = << Loc(65, 1, 3), Loc(65, 1, 3) >>
    /\ ret.path = << 0, 2 >>
    /\ ret.totalDistance = 4

----------------------------------------------------------------------------
(* What an allocation changes *)

\* the allocations of the call that chose the unit at position p
AllocationsTo(p) == { m \in 1..Len(ret.allocations) : ret.allocations[m].allocatedSpace = p }

\* the quantities of the items of those allocations, added up
RECURSIVE QuantityOf(_)
QuantityOf(M) ==
    IF M = {} THEN 0
    ELSE LET m == CHOOSE x \in M : TRUE
         IN  ret.allocations[m].item.quantity + QuantityOf(M \ {m})

\* C30: allocateSpace changes only the units it selects: occupied rises
\* and available falls by the quantities of the items allocated to the unit
\* in the call, itemId becomes the id of the last of them, capacity stays,
\* and a unit that received nothing, one that entered without room
\* included, has every field as before.
C30_OnlySelectedSpacesChange ==
    call.op = "allocateSpace" =>
        /\ Len(spaces) = Len(call.availableSpaces)
        /\ \A p \in 1..Len(spaces) :
             LET before == call.availableSpaces[p]
                 M      == AllocationsTo(p)
             IN  /\ spaces[p].capacity = before.capacity
                 /\ spaces[p].occupied = before.occupied + QuantityOf(M)
                 /\ spaces[p].available = before.available - QuantityOf(M)
                 /\ IF M = {} THEN spaces[p] = before
                    ELSE LET last == CHOOSE m \in M : \A k \in M : k <= m
                         IN  /\ spaces[p].itemId = ret.allocations[last].item.id
                             /\ spaces[p].id = before.id

\* An allocation to a full unit and a unit with room: two items went to
\* the unit with room, which names the second of them, and the full unit
\* is as it was.
C30_Witness ==
    /\ call.op = "allocateSpace"
    /\ Len(spaces) = 2
    /\ \E p, q \in 1..2 :
         /\ Cardinality(AllocationsTo(p)) = 2
         /\ QuantityOf(AllocationsTo(p)) = 3
         /\ spaces[p].itemId = ret.allocations[2].item.id
         /\ call.availableSpaces[q].available = 0
         /\ spaces[q] = call.availableSpaces[q]

====
